---- MODULE Spec2Model ----
(***************************************************************************)
(* Model of the GuardianAI crawl-and-score pipeline (crawler.py,            *)
(* ai_analyzer.py, tasks.py): the breadth-first crawl loop of crawl_site,   *)
(* the anomaly detector, the page handle discipline, and main() with        *)
(* build_reports.                                                           *)
(***************************************************************************)
EXTENDS Integers, Sequences, FiniteSets, TLC

VARIABLES
    jobs,            \* the crawl jobs (invocations of main) of this run
    site,            \* the web site: what each URL may answer when visited
    base_url,        \* main(start_url=...), per job
    max_pages,       \* main: max_pages (None or <<n>>), per job
    threshold,       \* ANOMALY_FAILURE_THRESHOLD, the detectors' threshold
    pc,              \* position of each job in main()/crawl_site()
    queue,           \* crawl_site: queue (the frontier), per job
    visited,         \* main: visited, per job
    page_data,       \* main: page_data (list of PageRecords), per job
    consecutive_err, \* CrawlAnomalyDetector.consecutive_err, per job
    anomalies,       \* CrawlAnomalyDetector.anomalies, per job
    current_url,     \* crawl_site: current_url, per job
    attempt,         \* index into the wait_until fallback list, per job
    skip_delay,      \* the iteration ends by `continue` (inside try), per job
    open_pages,      \* number of browser pages open, per job
    context_open,    \* the browser context of the job is open
    exit_reason,     \* how the while loop of crawl_site ended, per job
    co_mode,         \* the narrative collaborator as met by analyze_site
    summary,         \* what analyze_site returned, per job
    result,          \* the dict returned by build_reports, per job
    nav_log,         \* history: URLs handed to page.goto, in order
    enq_log,         \* history: URLs put in the frontier, in order
    run,             \* tasks.py: the TestRun row of each job (None: no row)
    scan_pc,         \* position of each job in run_scan()
    update_log,      \* history: the calls of update_fn, in order, per job
    call,            \* a call of one of the scoring functions: its arguments
    returned         \* what that call returned (None: not yet)

\* the variables of run_scan(), those of a scoring call, those of main()
scan_vars == <<run, scan_pc, update_log>>
call_vars == <<call, returned>>
crawl_vars == <<jobs, site, base_url, max_pages, threshold, pc, queue, visited,
                page_data, consecutive_err, anomalies, current_url, attempt,
                skip_delay, open_pages, context_open, exit_reason, co_mode,
                summary, result, nav_log, enq_log>>

vars == <<jobs, site, base_url, max_pages, threshold, pc, queue, visited,
          page_data, consecutive_err, anomalies, current_url, attempt,
          skip_delay, open_pages, context_open, exit_reason, co_mode,
          summary, result, nav_log, enq_log, run, scan_pc, update_log,
          call, returned>>

----------------------------------------------------------------------------
(* Bounds of the model *)

MaxPath == 3        \* internal pages are path 0 (the root) .. MaxPath
MaxLinks == 2       \* anchors per page
MaxCap == 2         \* largest page cap tried
MaxThreshold == 2   \* largest anomaly threshold tried
MaxBroken == 8      \* most broken navigation links on a page
MaxJsErrors == 7    \* most JS errors on a page
MaxRedirects == 5   \* longest redirect chain
MaxUrlLen == 4      \* characters of a URL after "http://a.com"
MaxFields == 3      \* inputs of a form
MaxEvents == 2      \* network events heard while a page loads
MaxSitePages == 3   \* longest page list handed to compute_site_health_score
MaxRunPages == 2    \* longest page list handed to compute_run_confidence

Jobs == {1, 2}
None == <<>>
Some(x) == <<x>>

----------------------------------------------------------------------------
(* URLs.  A URL is kept as the parts urlparse splits it into that the      *)
(* crawl looks at: netloc, path (a number names the path text), extension  *)
(* of the last path segment, a trailing slash, a fragment.                 *)

SiteHost == "a.com"
OtherHost == "b.com"

URL(n, p, e, s, f) == [netloc |-> n, path |-> p, ext |-> e, slash |-> s, fragment |-> f]

ASSET_EXTENSIONS ==
    {".png", ".jpg", ".jpeg", ".gif", ".webp", ".svg", ".ico",
     ".woff", ".woff2", ".ttf", ".eot", ".otf",
     ".mp4", ".webm", ".ogg", ".mp3", ".wav",
     ".css", ".js", ".json", ".xml", ".pdf",
     ".zip", ".gz", ".tar"}

\* normalize_url: drop the fragment, strip the trailing slash
normalize_url(u) == [u EXCEPT !.fragment = FALSE, !.slash = FALSE]

same_domain(base, u) == base.netloc = u.netloc

\* os.path.splitext: the extension is that of the last path segment, so a
\* path ending in "/" has none
is_asset_url(u) == (~u.slash) /\ u.ext \in ASSET_EXTENSIONS

\* the anchors (a[href]) a page of the site may carry
\* (each internal page plain; one with a trailing slash, one with a fragment;
\* an image; a page of another host)
RawHrefs ==
    { URL(SiteHost, p, "", FALSE, FALSE) : p \in 0..MaxPath }
    \cup { URL(SiteHost, 1, "", TRUE, FALSE),
           URL(SiteHost, 2, "", FALSE, TRUE),
           URL(SiteHost, 1, ".png", FALSE, FALSE),
           URL(OtherHost, 1, "", FALSE, FALSE) }

\* the start URL of a job: the site root, written with slash and fragment
BaseURLs == { URL(SiteHost, 0, "", TRUE, TRUE) }

NormURLs == { normalize_url(h) : h \in RawHrefs \cup BaseURLs }

RECURSIVE SeqsUpTo(_, _)
SeqsUpTo(S, n) ==
    IF n = 0 THEN { <<>> }
    ELSE LET shorter == SeqsUpTo(S, n - 1)
         IN  shorter \cup { Append(q, x) : q \in { r \in shorter : Len(r) = n - 1 }, x \in S }

HrefSeqs == SeqsUpTo(RawHrefs, MaxLinks)

Range(q) == { q[i] : i \in 1..Len(q) }

----------------------------------------------------------------------------
(* Pure helpers of crawler.py *)

\* list(dict.fromkeys(xs)): drop repeats, keep the order of first occurrence
RECURSIVE Dedup(_)
Dedup(xs) ==
    IF xs = <<>> THEN <<>>
    ELSE LET front == Dedup(SubSeq(xs, 1, Len(xs) - 1))
             last  == xs[Len(xs)]
         IN  IF last \in Range(front) THEN front ELSE Append(front, last)

\* mutant: the same-domain test is left out
RECURSIVE InternalOfAnyDomain(_, _)
InternalOfAnyDomain(hrefs, base) ==
    IF hrefs = <<>> THEN <<>>
    ELSE LET front == InternalOfAnyDomain(SubSeq(hrefs, 1, Len(hrefs) - 1), base)
             norm  == normalize_url(hrefs[Len(hrefs)])
         IN  IF ~is_asset_url(norm) THEN Append(front, norm) ELSE front

\* classify_links, the internal_links it returns: every href normalized, kept
\* when on the base's netloc and not an asset, repeats dropped
RECURSIVE InternalOf(_, _)
InternalOf(hrefs, base) ==
    IF hrefs = <<>> THEN <<>>
    ELSE LET front == InternalOf(SubSeq(hrefs, 1, Len(hrefs) - 1), base)
             norm  == normalize_url(hrefs[Len(hrefs)])
         IN  IF same_domain(base, norm) /\ ~is_asset_url(norm)
             THEN Append(front, norm) ELSE front

classify_links(hrefs, base) == Dedup(InternalOf(hrefs, base))

\* mutant: every internal link is appended
EnqueueAll(q, vis, links) == q \o links

\* "for link in internal_links: if link not in visited and link not in queue:
\*  queue.append(link)"
RECURSIVE Enqueue(_, _, _)
Enqueue(q, vis, links) ==
    IF links = <<>> THEN q
    ELSE LET q1   == Enqueue(q, vis, SubSeq(links, 1, Len(links) - 1))
             link == links[Len(links)]
         IN  IF link \notin vis /\ link \notin Range(q1) THEN Append(q1, link) ELSE q1

\* mutant: abort at the threshold itself
should_abort_at_threshold(err, thr) == err >= thr

\* CrawlAnomalyDetector.should_abort
should_abort(err, thr) == err >= thr * 2

\* mutant: the cap test is off by one
cap_reached_late(cap, pd) == cap # None /\ Len(pd) > cap[1]

\* "max_pages is not None and len(page_data) >= int(max_pages)"
cap_reached(cap, pd) == cap # None /\ Len(pd) >= cap[1]

\* the PageRecord fields the run result reads
PageRecord(u, status) ==
    [url |-> u, status |-> status, result |-> IF status = 200 THEN "pass" ELSE "fail"]

\* build_reports: total, passed, failed
RunResult(pd) ==
    LET passed == Cardinality({ i \in 1..Len(pd) : pd[i].result = "pass" })
    IN  [total |-> Len(pd), passed |-> passed, failed |-> Len(pd) - passed]

----------------------------------------------------------------------------
(* What a URL of the site may answer.  nav: how many of the three          *)
(* navigation attempts fail before one succeeds (3: all fail); proc: how   *)
(* the page processing ends; hrefs: the anchors; status: response.status;  *)
(* fails: the inspection steps that raise                                  *)

NavOutcomes == 0..3
ProcOutcomes == {"ok", "raises_early", "raises_late"}
Statuses == {200, 404}

\* the steps of a page visit that sit in a try/except of their own: the four
\* inspectors, the screenshot, the link classifier.  fails: which of them raise
Steps == {"dom", "performance", "accessibility", "security", "screenshot", "links"}

AnyPage ==
    [nav |-> NavOutcomes, proc |-> ProcOutcomes, hrefs |-> HrefSeqs, status |-> Statuses,
     fails |-> SUBSET Steps]

\* what URL u of the site may answer: anything, or what the fixed site says
Answers(u) == IF site.kind = "any" THEN AnyPage ELSE site.pages[u]

PageCaps == {None} \cup { Some(n) : n \in 0..MaxCap }
Thresholds == 1..MaxThreshold

\* the state of every job after main() has bound visited = set(),
\* page_data = [] and max_pages
JobsInit ==
    /\ pc = [j \in Jobs |-> "init"]
    /\ queue = [j \in Jobs |-> <<>>]
    /\ visited = [j \in Jobs |-> {}]
    /\ page_data = [j \in Jobs |-> <<>>]
    /\ consecutive_err = [j \in Jobs |-> 0]
    /\ anomalies = [j \in Jobs |-> <<>>]
    /\ current_url = [j \in Jobs |-> None]
    /\ attempt = [j \in Jobs |-> 0]
    /\ skip_delay = [j \in Jobs |-> FALSE]
    /\ open_pages = [j \in Jobs |-> 0]
    /\ context_open = [j \in Jobs |-> FALSE]
    /\ exit_reason = [j \in Jobs |-> "none"]
    /\ co_mode = [j \in Jobs |-> "none"]
    /\ summary = [j \in Jobs |-> None]
    /\ result = [j \in Jobs |-> None]
    /\ nav_log = [j \in Jobs |-> <<>>]
    /\ enq_log = [j \in Jobs |-> <<>>]
    /\ update_log = [j \in Jobs |-> <<>>]

\* main() called on its own: no run_scan, no TestRun row, update_fn = None
NoScan ==
    /\ run = [j \in Jobs |-> None]
    /\ scan_pc = [j \in Jobs |-> "none"]

\* no scoring call is being looked at
NoCall ==
    /\ call = None
    /\ returned = None

\* one job, on a site that may answer anything
Init ==
    /\ jobs = {1}
    /\ site = [kind |-> "any"]
    /\ base_url \in [Jobs -> BaseURLs]
    /\ max_pages \in [Jobs -> PageCaps]
    /\ max_pages[2] = None
    /\ threshold \in Thresholds
    /\ JobsInit
    /\ NoScan
    /\ NoCall

----------------------------------------------------------------------------
(* main() and crawl_site(), one action per stretch between two awaits *)

\* mutant: visited is one set at module scope, shared by the jobs
AlreadyVisitedByAnyJob(j, u) == \E k \in jobs : u \in visited[k]

\* "current_url in visited" on dequeue
AlreadyVisited(j, u) == u \in visited[j]

\* mutant: the URL is read and left in the frontier
pop0_keeps(q) == [url |-> Head(q), rest |-> q]

\* mutant: the newest URL is taken (a stack)
pop_last(q) == [url |-> q[Len(q)], rest |-> SubSeq(q, 1, Len(q) - 1)]

\* queue.pop(0): the URL taken and the frontier left
pop0(q) == [url |-> Head(q), rest |-> Tail(q)]

\* mutant: the URL is not remembered
visited_add_forgets(vis, u) == vis

\* visited.add(current_url)
visited_add(vis, u) == vis \cup {u}

\* mutant: the page is closed after the try block, which `continue` skips
page_close_unless_continue(j) == IF skip_delay[j] THEN open_pages[j] ELSE open_pages[j] - 1

\* "finally: await page.close()": the pages of job j left open by it
page_close(j) == open_pages[j] - 1

\* mutant: the anomaly break raises out of crawl_site
after_crawl_abort_raises(reason) == IF reason \in {"error", "abort"} THEN "raised" ELSE "reports"

\* main() after crawl_site: the finally re-raises a pending exception, else
\* build_reports is entered
after_crawl(reason) == IF reason = "error" THEN "raised" ELSE "reports"

\* CrawlAnomalyDetector.record_failure
record_failure(j, u) ==
    /\ consecutive_err' = [consecutive_err EXCEPT ![j] = @ + 1]
    /\ anomalies' = [anomalies EXCEPT ![j] = Append(@, u)]

\* main(): the browser and its context start; crawl_site() begins with the
\* normalized base URL alone in the frontier
Main(j) ==
    /\ j \in jobs /\ pc[j] = "init"
    /\ context_open' = [context_open EXCEPT ![j] = TRUE]
    /\ queue' = [queue EXCEPT ![j] = <<normalize_url(base_url[j])>>]
    /\ enq_log' = [enq_log EXCEPT ![j] = <<normalize_url(base_url[j])>>]
    /\ pc' = [pc EXCEPT ![j] = "loop"]
    /\ UNCHANGED <<call_vars, scan_vars, jobs, site, base_url, max_pages, threshold, visited, page_data,
                   consecutive_err, anomalies, current_url, attempt, skip_delay,
                   open_pages, exit_reason, co_mode, summary, result, nav_log>>

\* main(): chromium.launch / new_context raises; main() raises to its caller
LaunchFails(j) ==
    /\ j \in jobs /\ pc[j] = "init"
    /\ exit_reason' = [exit_reason EXCEPT ![j] = "error"]
    /\ pc' = [pc EXCEPT ![j] = "raised"]
    /\ UNCHANGED <<call_vars, scan_vars, jobs, site, base_url, max_pages, threshold, queue, visited,
                   page_data, consecutive_err, anomalies, current_url, attempt,
                   skip_delay, open_pages, context_open, co_mode, summary, result,
                   nav_log, enq_log>>

\* "while queue:" is false
LoopExitEmpty(j) ==
    /\ j \in jobs /\ pc[j] = "loop"
    /\ queue[j] = <<>>
    /\ exit_reason' = [exit_reason EXCEPT ![j] = "empty"]
    /\ pc' = [pc EXCEPT ![j] = "ctx_close"]
    /\ UNCHANGED <<call_vars, scan_vars, jobs, site, base_url, max_pages, threshold, queue, visited,
                   page_data, consecutive_err, anomalies, current_url, attempt,
                   skip_delay, open_pages, context_open, co_mode, summary, result,
                   nav_log, enq_log>>

\* the page cap break
LoopExitCap(j) ==
    /\ j \in jobs /\ pc[j] = "loop"
    /\ queue[j] # <<>>
    /\ cap_reached(max_pages[j], page_data[j])
    /\ exit_reason' = [exit_reason EXCEPT ![j] = "cap"]
    /\ pc' = [pc EXCEPT ![j] = "ctx_close"]
    /\ UNCHANGED <<call_vars, scan_vars, jobs, site, base_url, max_pages, threshold, queue, visited,
                   page_data, consecutive_err, anomalies, current_url, attempt,
                   skip_delay, open_pages, context_open, co_mode, summary, result,
                   nav_log, enq_log>>

\* the anomaly break
LoopExitAbort(j) ==
    /\ j \in jobs /\ pc[j] = "loop"
    /\ queue[j] # <<>>
    /\ ~cap_reached(max_pages[j], page_data[j])
    /\ should_abort(consecutive_err[j], threshold)
    /\ exit_reason' = [exit_reason EXCEPT ![j] = "abort"]
    /\ pc' = [pc EXCEPT ![j] = "ctx_close"]
    /\ UNCHANGED <<call_vars, scan_vars, jobs, site, base_url, max_pages, threshold, queue, visited,
                   page_data, consecutive_err, anomalies, current_url, attempt,
                   skip_delay, open_pages, context_open, co_mode, summary, result,
                   nav_log, enq_log>>

\* queue.pop(0); `continue` for a visited or off-domain URL; otherwise
\* visited.add(current_url), up to "await context.new_page()"
Dequeue(j) ==
    /\ j \in jobs /\ pc[j] = "loop"
    /\ queue[j] # <<>>
    /\ ~cap_reached(max_pages[j], page_data[j])
    /\ ~should_abort(consecutive_err[j], threshold)
    /\ LET u == pop0(queue[j]).url
       IN  /\ queue' = [queue EXCEPT ![j] = pop0(queue[j]).rest]
           /\ current_url' = [current_url EXCEPT ![j] = Some(u)]
           /\ IF AlreadyVisited(j, u) \/ ~same_domain(base_url[j], u)
              THEN UNCHANGED <<visited, pc>>
              ELSE /\ visited' = [visited EXCEPT ![j] = visited_add(@, u)]
                   /\ pc' = [pc EXCEPT ![j] = "new_page"]
    /\ UNCHANGED <<call_vars, scan_vars, jobs, site, base_url, max_pages, threshold, page_data,
                   consecutive_err, anomalies, attempt, skip_delay, open_pages,
                   context_open, exit_reason, co_mode, summary, result, nav_log,
                   enq_log>>

\* context.new_page() returns; the listeners are attached and the first
\* page.goto is issued
NewPage(j) ==
    /\ j \in jobs /\ pc[j] = "new_page"
    /\ open_pages' = [open_pages EXCEPT ![j] = @ + 1]
    /\ attempt' = [attempt EXCEPT ![j] = 1]
    /\ skip_delay' = [skip_delay EXCEPT ![j] = FALSE]
    /\ nav_log' = [nav_log EXCEPT ![j] = Append(@, current_url[j][1])]
    /\ pc' = [pc EXCEPT ![j] = "goto"]
    /\ UNCHANGED <<call_vars, scan_vars, jobs, site, base_url, max_pages, threshold, queue, visited,
                   page_data, consecutive_err, anomalies, current_url,
                   context_open, exit_reason, co_mode, summary, result, enq_log>>

\* context.new_page() raises: it is outside the try, the exception leaves
\* crawl_site and reaches the finally of main()
NewPageFails(j) ==
    /\ j \in jobs /\ pc[j] = "new_page"
    /\ exit_reason' = [exit_reason EXCEPT ![j] = "error"]
    /\ pc' = [pc EXCEPT ![j] = "ctx_close"]
    /\ UNCHANGED <<call_vars, scan_vars, jobs, site, base_url, max_pages, threshold, queue, visited,
                   page_data, consecutive_err, anomalies, current_url, attempt,
                   skip_delay, open_pages, context_open, co_mode, summary, result,
                   nav_log, enq_log>>

\* mutant: the last fallback is missing
NAV_ATTEMPTS_two == <<"domcontentloaded", "load">>

\* the wait_until fallback list: domcontentloaded, load, commit
NAV_ATTEMPTS == <<"domcontentloaded", "load", "commit">>

\* one page.goto of the fallback loop: it returns a response (break), or it
\* raises and the next wait_until is tried; after the last one response is
\* None: record_failure and `continue`
Goto(j) ==
    /\ j \in jobs /\ pc[j] = "goto"
    /\ \E n \in Answers(current_url[j][1]).nav :
         IF attempt[j] > n
         THEN /\ pc' = [pc EXCEPT ![j] = "process"]
              /\ UNCHANGED <<attempt, skip_delay, consecutive_err, anomalies>>
         ELSE IF attempt[j] < Len(NAV_ATTEMPTS)
         THEN /\ attempt' = [attempt EXCEPT ![j] = @ + 1]
              /\ UNCHANGED <<pc, skip_delay, consecutive_err, anomalies>>
         ELSE /\ record_failure(j, current_url[j][1])
              /\ skip_delay' = [skip_delay EXCEPT ![j] = TRUE]
              /\ pc' = [pc EXCEPT ![j] = "page_close"]
              /\ UNCHANGED attempt
    /\ UNCHANGED <<call_vars, scan_vars, jobs, site, base_url, max_pages, threshold, queue, visited,
                   page_data, current_url, open_pages, context_open, exit_reason,
                   co_mode, summary, result, nav_log, enq_log>>

\* mutant: the inspectors and the classifier are called with no try/except
escapes_unguarded(step) == TRUE

\* does an exception of this step leave its try/except?  Each of them is
\* caught where it is raised and logged
escapes(step) == FALSE

\* the sets of failing steps the current page may show that let the visit go on
Degradations(j) ==
    { failed \in Answers(current_url[j][1]).fails : \A step \in failed : ~escapes(step) }

\* link_data["internal_links"]: what classify_links returns, or the empty
\* default when it raises
internal_links_of(hrefs, failed, base) ==
    IF "links" \in failed THEN <<>> ELSE classify_links(hrefs, base)

\* link_data["internal_links"] as the current page may give it (of the failing
\* steps only the classifier bears on it)
LinkData(j) ==
    { internal_links_of(hrefs, failed, base_url[j]) :
        hrefs \in Answers(current_url[j][1]).hrefs,
        failed \in { d \cap {"links"} : d \in Degradations(j) } }

\* an exception before the links are enqueued (e.g. page.wait_for_timeout on a
\* crashed page): "except Exception" records the failure
ProcessRaisesEarly(j) ==
    /\ j \in jobs /\ pc[j] = "process"
    /\ \/ "raises_early" \in Answers(current_url[j][1]).proc
       \/ \E failed \in Answers(current_url[j][1]).fails : \E step \in failed : escapes(step)
    /\ record_failure(j, current_url[j][1])
    /\ pc' = [pc EXCEPT ![j] = "page_close"]
    /\ UNCHANGED <<call_vars, scan_vars, jobs, site, base_url, max_pages, threshold, queue, visited,
                   page_data, current_url, attempt, skip_delay, open_pages,
                   context_open, exit_reason, co_mode, summary, result, nav_log,
                   enq_log>>

\* the links are enqueued, then scoring or enrichment raises before
\* page_data.append: "except Exception" records the failure
ProcessRaisesLate(j) ==
    /\ j \in jobs /\ pc[j] = "process"
    /\ "raises_late" \in Answers(current_url[j][1]).proc
    /\ \E internal_links \in LinkData(j) :
         LET q1 == Enqueue(queue[j], visited[j], internal_links)
         IN  /\ queue' = [queue EXCEPT ![j] = q1]
             /\ enq_log' = [enq_log EXCEPT ![j] = @ \o SubSeq(q1, Len(queue[j]) + 1, Len(q1))]
    /\ record_failure(j, current_url[j][1])
    /\ pc' = [pc EXCEPT ![j] = "page_close"]
    /\ UNCHANGED <<call_vars, scan_vars, jobs, site, base_url, max_pages, threshold, visited, page_data,
                   current_url, attempt, skip_delay, open_pages, context_open,
                   exit_reason, co_mode, summary, result, nav_log>>

\* the arguments of the update_fn call: scanned = len(page_data),
\* total = max_pages or (len(page_data) + len(queue)), discovered = the
\* len(visited) + len(queue) taken when the URL was dequeued
update_fn_args(cap, pd, q, discovered) ==
    [scanned    |-> Len(pd),
     total      |-> IF cap # None /\ cap[1] # 0 THEN cap[1] ELSE Len(pd) + Len(q),
     discovered |-> discovered]

\* tasks.py, update_progress: the TestRun row after the call (a missing row is
\* left alone)
update_progress(row, a) ==
    IF row = None THEN None
    ELSE Some([row[1] EXCEPT !.scanned_pages = a.scanned,
                             !.discovered_pages = a.discovered,
                             !.progress = IF a.total # 0 THEN (a.scanned * 100) \div a.total ELSE 0])

\* mutant: update_fn is called with no try/except around it
update_fn_raise_propagates(raised) == raised

\* "try: update_fn(...) except Exception: pass": does an exception of the
\* callback reach the "except Exception" of the page?
update_fn_raise(raised) == FALSE

\* the inspectors and classify_links return; the links are enqueued, the
\* PageRecord is appended, record_success; then update_fn, when main() was
\* given one, is called, and may raise
RecordPage(j) ==
    /\ j \in jobs /\ pc[j] = "process"
    /\ "ok" \in Answers(current_url[j][1]).proc
    /\ \E internal_links \in LinkData(j), status \in Answers(current_url[j][1]).status,
          raised \in IF scan_pc[j] = "crawl" THEN BOOLEAN ELSE {FALSE} :
         LET q1   == Enqueue(queue[j], visited[j], internal_links)
             pd1  == Append(page_data[j], PageRecord(current_url[j][1], status))
             args == update_fn_args(max_pages[j], pd1, q1, Cardinality(visited[j]) + Len(queue[j]))
         IN  /\ queue' = [queue EXCEPT ![j] = q1]
             /\ enq_log' = [enq_log EXCEPT ![j] = @ \o SubSeq(q1, Len(queue[j]) + 1, Len(q1))]
             /\ page_data' = [page_data EXCEPT ![j] = pd1]
             /\ IF scan_pc[j] = "crawl"
                THEN /\ update_log' = [update_log EXCEPT ![j] = Append(@, [args |-> args, raised |-> raised])]
                     /\ run' = [run EXCEPT ![j] = IF raised THEN @ ELSE update_progress(@, args)]
                ELSE UNCHANGED <<run, update_log>>
             /\ IF update_fn_raise(raised)
                THEN /\ consecutive_err' = [consecutive_err EXCEPT ![j] = 1]
                     /\ anomalies' = [anomalies EXCEPT ![j] = Append(@, current_url[j][1])]
                ELSE /\ consecutive_err' = [consecutive_err EXCEPT ![j] = 0]
                     /\ UNCHANGED anomalies
    /\ pc' = [pc EXCEPT ![j] = "page_close"]
    /\ UNCHANGED <<call_vars, scan_pc, jobs, site, base_url, max_pages, threshold, visited,
                   current_url, attempt, skip_delay, open_pages, context_open,
                   exit_reason, co_mode, summary, result, nav_log>>

\* finally: page.close(); then the loop head (after `continue`) or the delay
ClosePage(j) ==
    /\ j \in jobs /\ pc[j] = "page_close"
    /\ open_pages' = [open_pages EXCEPT ![j] = page_close(j)]
    /\ pc' = [pc EXCEPT ![j] = IF skip_delay[j] THEN "loop" ELSE "delay"]
    /\ UNCHANGED <<call_vars, scan_vars, jobs, site, base_url, max_pages, threshold, queue, visited,
                   page_data, consecutive_err, anomalies, current_url, attempt,
                   skip_delay, context_open, exit_reason, co_mode, summary, result,
                   nav_log, enq_log>>

\* asyncio.sleep(CRAWL_DELAY_MS / 1000.0)
Delay(j) ==
    /\ j \in jobs /\ pc[j] = "delay"
    /\ pc' = [pc EXCEPT ![j] = "loop"]
    /\ UNCHANGED <<call_vars, scan_vars, jobs, site, base_url, max_pages, threshold, queue, visited,
                   page_data, consecutive_err, anomalies, current_url, attempt,
                   skip_delay, open_pages, context_open, exit_reason, co_mode,
                   summary, result, nav_log, enq_log>>

\* main(), finally: context.close() and browser.close() (which close whatever
\* page the context still holds); then the pending exception is re-raised, or
\* build_reports is entered
CloseContext(j) ==
    /\ j \in jobs /\ pc[j] = "ctx_close"
    /\ context_open' = [context_open EXCEPT ![j] = FALSE]
    /\ open_pages' = [open_pages EXCEPT ![j] = 0]
    /\ pc' = [pc EXCEPT ![j] = after_crawl(exit_reason[j])]
    /\ UNCHANGED <<call_vars, scan_vars, jobs, site, base_url, max_pages, threshold, queue, visited,
                   page_data, consecutive_err, anomalies, current_url, attempt,
                   skip_delay, exit_reason, co_mode, summary, result, nav_log,
                   enq_log>>

\* how the narrative collaborator (the Cohere client `co`) may behave
CoModes == {"absent", "responds", "raises", "hangs"}

\* build_reports up to "f.write(analyze_site(page_data))": analyze_site
\* returns at once for no pages or no client, else it enters co.chat(...)
BuildReports(j) ==
    /\ j \in jobs /\ pc[j] = "reports"
    /\ IF page_data[j] = <<>>
       THEN /\ summary' = [summary EXCEPT ![j] = Some("No pages crawled.")]
            /\ pc' = [pc EXCEPT ![j] = "site_health"]
            /\ UNCHANGED co_mode
       ELSE \E m \in CoModes :
            /\ co_mode' = [co_mode EXCEPT ![j] = m]
            /\ IF m = "absent"
               THEN /\ summary' = [summary EXCEPT ![j] = Some("basic_summary")]
                    /\ pc' = [pc EXCEPT ![j] = "site_health"]
               ELSE /\ pc' = [pc EXCEPT ![j] = "co_chat"]
                    /\ UNCHANGED summary
    /\ UNCHANGED <<call_vars, scan_vars, jobs, site, base_url, max_pages, threshold, queue, visited,
                   page_data, consecutive_err, anomalies, current_url, attempt,
                   skip_delay, open_pages, context_open, exit_reason, result,
                   nav_log, enq_log>>

\* co.chat(...) returns the text, or raises and basic_summary is used.  The
\* call carries no timeout: a collaborator that never answers enables nothing
CoChatReturns(j) ==
    /\ j \in jobs /\ pc[j] = "co_chat"
    /\ co_mode[j] \in {"responds", "raises"}
    /\ summary' = [summary EXCEPT ![j] =
                     Some(IF co_mode[j] = "responds" THEN "response.text" ELSE "basic_summary")]
    /\ pc' = [pc EXCEPT ![j] = "site_health"]
    /\ UNCHANGED <<call_vars, scan_vars, jobs, site, base_url, max_pages, threshold, queue, visited,
                   page_data, consecutive_err, anomalies, current_url, attempt,
                   skip_delay, open_pages, context_open, exit_reason, co_mode,
                   result, nav_log, enq_log>>

\* the rest of build_reports: site health, confidence, the returned dict
ReturnResult(j) ==
    /\ j \in jobs /\ pc[j] = "site_health"
    /\ result' = [result EXCEPT ![j] = Some(RunResult(page_data[j]))]
    /\ pc' = [pc EXCEPT ![j] = "done"]
    /\ UNCHANGED <<call_vars, scan_vars, jobs, site, base_url, max_pages, threshold, queue, visited,
                   page_data, consecutive_err, anomalies, current_url, attempt,
                   skip_delay, open_pages, context_open, exit_reason, co_mode,
                   summary, nav_log, enq_log>>

JobNext(j) ==
    \/ Main(j)
    \/ LaunchFails(j)
    \/ LoopExitEmpty(j)
    \/ LoopExitCap(j)
    \/ LoopExitAbort(j)
    \/ Dequeue(j)
    \/ NewPage(j)
    \/ NewPageFails(j)
    \/ Goto(j)
    \/ ProcessRaisesEarly(j)
    \/ ProcessRaisesLate(j)
    \/ RecordPage(j)
    \/ ClosePage(j)
    \/ Delay(j)
    \/ CloseContext(j)
    \/ BuildReports(j)
    \/ CoChatReturns(j)
    \/ ReturnResult(j)

Next == \E j \in Jobs : JobNext(j)

\* one crawl job on a site that may answer anything
Spec == Init /\ [][Next]_vars

\* the same, every pending step of the job eventually taken: each await of the
\* crawl returns or times out
LiveSpec == Init /\ [][Next]_vars /\ WF_vars(Next)

----------------------------------------------------------------------------
(* Properties of the crawl loop *)

URLsOf(pd) == [i \in 1..Len(pd) |-> pd[i].url]
NoRepeat(q) == \A a, b \in 1..Len(q) : q[a] = q[b] => a = b
InPage(j) == pc[j] \in {"goto", "process", "page_close"}
AfterLoop(j) == pc[j] \in {"ctx_close", "reports", "co_chat", "site_health", "done", "raised"}

\* the navigations of job j whose outcome is settled (a record appended or a
\* failure recorded)
Settled(j) ==
    IF pc[j] \in {"goto", "process"}
    THEN SubSeq(nav_log[j], 1, Len(nav_log[j]) - 1)
    ELSE nav_log[j]

\* the number of settled navigations at the end of q that left no PageRecord
RECURSIVE TrailingFailures(_, _)
TrailingFailures(q, recorded) ==
    IF q = <<>> \/ q[Len(q)] \in recorded THEN 0
    ELSE 1 + TrailingFailures(SubSeq(q, 1, Len(q) - 1), recorded)

\* C1: within a job, every URL is the url of at most one PageRecord, the
\* recorded URLs are normalized ones, and no URL is handed to page.goto twice.
C1_VisitedOnce ==
    \A j \in jobs :
        /\ NoRepeat(URLsOf(page_data[j]))
        /\ NoRepeat(nav_log[j])
        /\ \A i \in 1..Len(page_data[j]) :
               normalize_url(page_data[j][i].url) = page_data[j][i].url

\* every page of the site navigated, at least two of them recorded, and a
\* frontier that was offered more links than there are pages
C1_Witness ==
    /\ Len(nav_log[1]) = MaxPath + 1
    /\ Len(page_data[1]) >= 2
    /\ pc[1] = "done"

\* C2: the count of the anomaly detector is the number of consecutive settled
\* page failures since the last recorded page (0 right after a record); no
\* page is opened or navigated with the count at 2N or more, the count never
\* passes 2N, and the loop ends by the anomaly break only with the count at 2N.
C2_AbortAtTwiceThreshold ==
    \A j \in jobs :
        /\ consecutive_err[j] =
               TrailingFailures(Settled(j), { page_data[j][i].url : i \in 1..Len(page_data[j]) })
        /\ consecutive_err[j] <= 2 * threshold
        /\ pc[j] \in {"new_page", "goto", "process"} => consecutive_err[j] < 2 * threshold
        /\ exit_reason[j] = "abort" => consecutive_err[j] = 2 * threshold
        /\ (pc[j] = "loop" /\ consecutive_err[j] >= 2 * threshold /\ queue[j] # <<>>
              /\ ~cap_reached(max_pages[j], page_data[j]))
               => ~ENABLED Dequeue(j)

\* the loop has ended by the anomaly break, after a page was recorded, with
\* URLs left in the frontier
C2_Witness ==
    /\ exit_reason[1] = "abort"
    /\ Len(page_data[1]) >= 1
    /\ queue[1] # <<>>
    /\ consecutive_err[1] = 2 * threshold

\* C3: with a page cap, page_data never holds more than max_pages records and
\* no URL is being opened or navigated while it holds max_pages of them.
C3_PageCap ==
    \A j \in jobs :
        max_pages[j] # None =>
            /\ Len(page_data[j]) <= max_pages[j][1]
            /\ pc[j] \in {"new_page", "goto", "process"} => Len(page_data[j]) < max_pages[j][1]
            /\ (pc[j] = "loop" /\ Len(page_data[j]) >= max_pages[j][1]) => ~ENABLED Dequeue(j)

\* the loop has ended by the cap break with the cap (at least 1) just met and
\* URLs left in the frontier
C3_Witness ==
    /\ exit_reason[1] = "cap"
    /\ max_pages[1] # None
    /\ max_pages[1][1] >= 1
    /\ Len(page_data[1]) = max_pages[1][1]
    /\ queue[1] # <<>>

\* C4: every URL ever put in the frontier, and every URL navigated to, has
\* the netloc of the job's base URL.
C4_SameDomain ==
    \A j \in jobs :
        /\ \A i \in 1..Len(enq_log[j]) : enq_log[j][i].netloc = base_url[j].netloc
        /\ \A i \in 1..Len(nav_log[j]) : nav_log[j][i].netloc = base_url[j].netloc
        /\ \A i \in 1..Len(queue[j]) : queue[j][i].netloc = base_url[j].netloc

\* links were discovered on two pages at least and the frontier grew
C4_Witness ==
    /\ Len(enq_log[1]) >= 3
    /\ Len(page_data[1]) >= 2
    /\ queue[1] # <<>>

\* C5: a job has at most one page open, and one only between new_page and
\* the finally of the same iteration: none at the loop head, during the
\* delay, while the next page is requested, or once the loop has ended.
C5_PagesClosed ==
    \A j \in jobs :
        /\ open_pages[j] \in {0, 1}
        /\ open_pages[j] = 1 <=> InPage(j)

\* back at the loop head with no page open, after one page was recorded and
\* another one failed
C5_Witness ==
    /\ pc[1] = "loop"
    /\ Len(page_data[1]) >= 1
    /\ Len(anomalies[1]) >= 1
    /\ open_pages[1] = 0

RecordedURLs(j) == { page_data[j][i].url : i \in 1..Len(page_data[j]) }
IsPrefix(a, b) == Len(a) <= Len(b) /\ a = SubSeq(b, 1, Len(a))
Keep(q, S) == LET Test(u) == u \in S IN SelectSeq(q, Test)

\* C6: the three waits are tried in order; a navigation whose third attempt
\* fails leaves page_data and the frontier as they were, keeps the URL in
\* visited, adds one failure to the anomaly detector, and hands control back
\* to the loop head, where the next frontier URL is taken unless the cap or
\* the anomaly break ends the loop; a failed URL is never navigated again.
C6_NavigationFailure ==
    /\ [](\A j \in Jobs :
            /\ NoRepeat(nav_log[j])
            /\ Range(anomalies[j]) \subseteq visited[j]
            /\ Range(anomalies[j]) \cap RecordedURLs(j) = {}
            /\ pc[j] = "goto" => attempt[j] \in 1..3
            /\ (pc[j] = "loop" /\ queue[j] # <<>> /\ ~cap_reached(max_pages[j], page_data[j])
                  /\ consecutive_err[j] < 2 * threshold) => ENABLED Dequeue(j))
    /\ [][\A j \in Jobs :
            /\ (pc[j] = "goto" /\ pc'[j] = "goto") => attempt'[j] = attempt[j] + 1
            /\ (pc[j] = "goto" /\ pc'[j] = "page_close") =>
                   /\ attempt[j] = 3
                   /\ page_data'[j] = page_data[j]
                   /\ queue'[j] = queue[j]
                   /\ current_url[j][1] \in visited'[j]
                   /\ consecutive_err'[j] = consecutive_err[j] + 1
                   /\ anomalies'[j] = Append(anomalies[j], current_url[j][1])
            /\ (pc[j] = "page_close" /\ skip_delay[j]) =>
                   /\ pc'[j] = "loop"
                   /\ page_data'[j] = page_data[j]
                   /\ queue'[j] = queue[j]
                   /\ visited'[j] = visited[j]]_vars

\* the third attempt has just failed, with a record gathered before and URLs
\* waiting in the frontier
C6_Witness ==
    /\ pc[1] = "page_close"
    /\ skip_delay[1]
    /\ attempt[1] = 3
    /\ Len(page_data[1]) >= 1
    /\ queue[1] # <<>>
    /\ anomalies[1] # <<>>

\* C7: when main() returns, the result counts exactly the PageRecords
\* gathered (total = len(page_data), passed + failed = total, passed the
\* records with status 200); every settled navigation that did not fail has
\* its record, at the end as during the crawl; a loop that ended by frontier,
\* cap or anomaly break never raises, and main() goes on to build_reports.
C7_ResultFromRecords ==
    \A j \in jobs :
        /\ pc[j] = "done" =>
              /\ result[j] # None
              /\ result[j][1].total = Len(page_data[j])
              /\ result[j][1].passed + result[j][1].failed = result[j][1].total
              /\ result[j][1].passed =
                     Cardinality({ i \in 1..Len(page_data[j]) : page_data[j][i].status = 200 })
              /\ exit_reason[j] \in {"empty", "cap", "abort"}
        /\ URLsOf(page_data[j]) = Keep(Settled(j), Range(Settled(j)) \ Range(anomalies[j]))
        /\ exit_reason[j] \in {"empty", "cap", "abort"} => pc[j] # "raised"
        /\ (exit_reason[j] \in {"empty", "cap", "abort"} /\ pc[j] = "ctx_close")
               => ENABLED CloseContext(j)
        /\ pc[j] = "reports" => ENABLED BuildReports(j)

\* main() has returned the result of a crawl that the anomaly break ended
\* after a record was gathered
C7_Witness ==
    /\ pc[1] = "done"
    /\ exit_reason[1] = "abort"
    /\ result[1][1].total >= 1

\* C9: URLs are navigated in the order they were first put in the frontier
\* (the navigated URLs are a prefix of the enqueue history, which holds no URL
\* twice), and the PageRecords are in navigation order.
C9_BreadthFirstOrder ==
    \A j \in jobs :
        /\ NoRepeat(enq_log[j])
        /\ IsPrefix(nav_log[j], enq_log[j])
        /\ URLsOf(page_data[j]) = Keep(nav_log[j], RecordedURLs(j))

\* four pages navigated, three recorded, the second page discovered being a
\* later path than the third
C9_Witness ==
    /\ Len(nav_log[1]) = 4
    /\ Len(page_data[1]) >= 3
    /\ nav_log[1][2].path > nav_log[1][3].path

\* C8: the run completes whatever the narrative collaborator does (main()
\* returns or raises), and with the collaborator absent, failing or silent the
\* summary is the deterministic basic_summary.
C8_RunCompletes ==
    /\ [](pc[1] = "done" /\ co_mode[1] \in {"absent", "raises", "hangs"}
            => summary[1] = Some("basic_summary"))
    /\ <>(pc[1] \in {"done", "raised"})

\* C11: with the delay configured (CRAWL_DELAY_MS > 0), every page visit,
\* ended by a PageRecord or by a page-level failure, is followed by the
\* inter-page delay: the step that leaves the closing of the page enters the
\* delay, so that no navigation follows another without it.
C11_DelayAfterEveryVisit ==
    [][\A j \in Jobs :
          (pc[j] = "page_close" /\ pc'[j] # "page_close") => pc'[j] = "delay"]_vars

----------------------------------------------------------------------------
(* Two jobs through main() at once, on one site whose pages answer the same *)
(* way at every visit                                                       *)

PageF(nav, proc, hrefs, status, failed) ==
    [nav |-> {nav}, proc |-> {proc}, hrefs |-> {hrefs}, status |-> {status}, fails |-> {failed}]

Page(nav, proc, hrefs, status) == PageF(nav, proc, hrefs, status, {})

P(p) == URL(SiteHost, p, "", FALSE, FALSE)
Leaf == Page(0, "ok", <<>>, 200)

\* a cycle, anchors written with slash or fragment, an off-domain anchor, an image
SiteCycle ==
    [u \in NormURLs |->
        IF u = P(0) THEN Page(0, "ok", <<URL(SiteHost, 1, "", TRUE, FALSE), URL(SiteHost, 2, "", FALSE, TRUE)>>, 200)
        ELSE IF u = P(1) THEN Page(0, "ok", <<P(0), P(3)>>, 404)
        ELSE IF u = P(2) THEN Page(0, "ok", <<URL(OtherHost, 1, "", FALSE, FALSE), P(1)>>, 200)
        ELSE IF u = P(3) THEN Page(1, "ok", <<URL(SiteHost, 1, ".png", FALSE, FALSE), P(0)>>, 200)
        ELSE Leaf]

\* two failures in a row after the root, a page left in the frontier
SiteFailing ==
    [u \in NormURLs |->
        IF u = P(0) THEN Page(0, "ok", <<P(2), P(1)>>, 200)
        ELSE IF u = P(2) THEN Page(0, "raises_late", <<P(3)>>, 200)
        ELSE IF u = P(1) THEN Page(3, "ok", <<>>, 200)
        ELSE Leaf]

\* a page reached on the last wait, a page whose processing raises
SiteSlow ==
    [u \in NormURLs |->
        IF u = P(0) THEN Page(0, "ok", <<P(1), P(2)>>, 200)
        ELSE IF u = P(1) THEN Page(2, "ok", <<P(3), P(3)>>, 200)
        ELSE IF u = P(2) THEN Page(0, "raises_early", <<>>, 200)
        ELSE Page(1, "ok", <<P(0)>>, 404)]

FixedSites == {SiteCycle, SiteFailing, SiteSlow}

InitConc ==
    /\ jobs = {1, 2}
    /\ \E f \in FixedSites : site = [kind |-> "fixed", pages |-> f]
    /\ base_url \in [Jobs -> BaseURLs]
    /\ max_pages \in [Jobs -> {None, Some(1), Some(MaxCap)}]
    /\ threshold \in Thresholds
    /\ JobsInit
    /\ NoScan
    /\ NoCall

SpecConc == InitConc /\ [][Next]_vars

TheOnly(S) == CHOOSE x \in S : TRUE

\* crawl_site run to its end by one job alone on the fixed site: the while
\* loop from frontier q, visited set vis, records pd and failure count err
RECURSIVE crawl_site(_, _, _, _, _, _)
crawl_site(base, cap, q, vis, pd, err) ==
    IF q = <<>> \/ cap_reached(cap, pd) \/ should_abort(err, threshold)
    THEN [visited |-> vis, page_data |-> pd]
    ELSE LET u     == pop0(q).url
             rest  == pop0(q).rest
             a     == site.pages[u]
             vis1  == visited_add(vis, u)
             links == internal_links_of(TheOnly(a.hrefs), TheOnly(a.fails), base)
         IN  IF u \in vis \/ ~same_domain(base, u)
             THEN crawl_site(base, cap, rest, vis, pd, err)
             ELSE IF TheOnly(a.nav) >= Len(NAV_ATTEMPTS) \/ TheOnly(a.proc) = "raises_early"
             THEN crawl_site(base, cap, rest, vis1, pd, err + 1)
             ELSE IF TheOnly(a.proc) = "raises_late"
             THEN crawl_site(base, cap, Enqueue(rest, vis1, links), vis1, pd, err + 1)
             ELSE crawl_site(base, cap, Enqueue(rest, vis1, links), vis1,
                             Append(pd, PageRecord(u, TheOnly(a.status))), 0)

\* main() run alone: fresh visited and page_data, the frontier of crawl_site
RunAlone(j) == crawl_site(base_url[j], max_pages[j], <<normalize_url(base_url[j])>>, {}, <<>>, 0)

\* C10: whatever the interleaving, a job that gets through crawl_site ends
\* with the visited set and the PageRecords of the same job run alone on the
\* site, and at every step it holds a part of them.
C10_JobsIndependent ==
    \A j \in jobs :
        /\ visited[j] \subseteq RunAlone(j).visited
        /\ IsPrefix(page_data[j], RunAlone(j).page_data)
        /\ (pc[j] \in {"reports", "co_chat", "site_health", "done"} /\ exit_reason[j] # "error")
               => /\ visited[j] = RunAlone(j).visited
                  /\ page_data[j] = RunAlone(j).page_data

\* both jobs are through, each with records, after steps of one fell between
\* the steps of the other
C10_Witness ==
    /\ pc[1] = "done" /\ pc[2] = "done"
    /\ Len(page_data[1]) >= 2
    /\ Len(page_data[2]) >= 1
    /\ max_pages[1] # max_pages[2]

----------------------------------------------------------------------------
(* tasks.py, run_scan: the job the queue worker runs around main()          *)

\* the TestRun row as the web front end inserts it before enqueueing the job
QueuedRun ==
    [status |-> "queued", scanned_pages |-> 0, discovered_pages |-> 0, progress |-> 0,
     total_tests |-> 0, page_results |-> 0]

\* the status set in the row of job j, when there is a row
set_status(j, status) ==
    run' = [run EXCEPT ![j] = IF @ = None THEN None ELSE Some([@[1] EXCEPT !.status = status])]

\* run_scan up to the first commit: a missing row ends the job, else the row
\* goes to running and main() is called with update_progress as update_fn
RunScanStart(j) ==
    /\ j \in jobs /\ scan_pc[j] = "start"
    /\ IF run[j] = None
       THEN /\ scan_pc' = [scan_pc EXCEPT ![j] = "returned"]
            /\ UNCHANGED run
       ELSE /\ set_status(j, "running")
            /\ scan_pc' = [scan_pc EXCEPT ![j] = "crawl"]
    /\ UNCHANGED <<call_vars, update_log, jobs, site, base_url, max_pages, threshold, pc,
                   queue, visited, page_data, consecutive_err, anomalies, current_url,
                   attempt, skip_delay, open_pages, context_open, exit_reason, co_mode,
                   summary, result, nav_log, enq_log>>

\* asyncio.run(run_crawler(...)) raised: "except Exception" marks the row
\* failed and run_scan returns
CrawlerFailed(j) ==
    /\ j \in jobs /\ scan_pc[j] = "crawl" /\ pc[j] = "raised"
    /\ set_status(j, "failed")
    /\ scan_pc' = [scan_pc EXCEPT ![j] = "returned"]
    /\ UNCHANGED <<call_vars, update_log, jobs, site, base_url, max_pages, threshold, pc,
                   queue, visited, page_data, consecutive_err, anomalies, current_url,
                   attempt, skip_delay, open_pages, context_open, exit_reason, co_mode,
                   summary, result, nav_log, enq_log>>

\* main() returned: the totals are read from the result and the row is
\* committed as completed; or something in that block raises before the
\* commit and the "except Exception" of the block marks the row failed
PersistRun(j) ==
    /\ j \in jobs /\ scan_pc[j] = "crawl" /\ pc[j] = "done"
    /\ \E raises \in BOOLEAN :
         IF raises
         THEN /\ set_status(j, "failed")
              /\ scan_pc' = [scan_pc EXCEPT ![j] = "returned"]
         ELSE /\ run' = [run EXCEPT ![j] = Some([@[1] EXCEPT !.status = "completed",
                                                             !.total_tests = result[j][1].total,
                                                             !.scanned_pages = result[j][1].total,
                                                             !.progress = 100])]
              /\ scan_pc' = [scan_pc EXCEPT ![j] = "persist_pages"]
    /\ UNCHANGED <<call_vars, update_log, jobs, site, base_url, max_pages, threshold, pc,
                   queue, visited, page_data, consecutive_err, anomalies, current_url,
                   attempt, skip_delay, open_pages, context_open, exit_reason, co_mode,
                   summary, result, nav_log, enq_log>>

\* _persist_page_results: the PageResult rows are saved; or the bulk save
\* fails, is rolled back and logged; or the call raises and the "except
\* Exception" of run_scan marks the row, already completed, failed
PersistPageResults(j) ==
    /\ j \in jobs /\ scan_pc[j] = "persist_pages"
    /\ \E outcome \in {"saved", "rolled_back", "raises"} :
         run' = [run EXCEPT ![j] =
                   Some([@[1] EXCEPT !.page_results = IF outcome = "saved" THEN Len(page_data[j]) ELSE 0,
                                     !.status = IF outcome = "raises" THEN "failed" ELSE @])]
    /\ scan_pc' = [scan_pc EXCEPT ![j] = "returned"]
    /\ UNCHANGED <<call_vars, update_log, jobs, site, base_url, max_pages, threshold, pc,
                   queue, visited, page_data, consecutive_err, anomalies, current_url,
                   attempt, skip_delay, open_pages, context_open, exit_reason, co_mode,
                   summary, result, nav_log, enq_log>>

\* the crawl of job j, run inside run_scan
RunCrawler(j) == scan_pc[j] = "crawl" /\ JobNext(j)

ScanNext(j) ==
    \/ RunScanStart(j)
    \/ RunCrawler(j)
    \/ CrawlerFailed(j)
    \/ PersistRun(j)
    \/ PersistPageResults(j)

NextScan == \E j \in Jobs : ScanNext(j)

\* inspection steps that raise: two inspectors and the screenshot on the root,
\* the classifier on a page that has links, the other inspectors on a third;
\* the last page cannot be navigated
SiteDegraded ==
    [u \in NormURLs |->
        IF u = P(0) THEN PageF(0, "ok", <<P(1), P(2)>>, 200, {"performance", "dom", "screenshot"})
        ELSE IF u = P(1) THEN PageF(0, "ok", <<P(0), P(3)>>, 200, {"links"})
        ELSE IF u = P(2) THEN PageF(1, "ok", <<P(3)>>, 404, {"accessibility", "security"})
        ELSE IF u = P(3) THEN PageF(3, "ok", <<>>, 200, {})
        ELSE Leaf]

\* every step raises on the only page
SiteAllDegraded ==
    [u \in NormURLs |-> IF u = P(0) THEN PageF(0, "ok", <<P(1)>>, 200, Steps) ELSE Leaf]

ScanSites == FixedSites \cup {SiteDegraded, SiteAllDegraded}

\* one job taken from the queue by the worker, its row queued (or gone)
InitScan ==
    /\ jobs = {1}
    /\ \E f \in ScanSites : site = [kind |-> "fixed", pages |-> f]
    /\ base_url \in [Jobs -> BaseURLs]
    /\ max_pages \in [Jobs -> PageCaps]
    /\ max_pages[2] = None
    /\ threshold \in Thresholds
    /\ JobsInit
    /\ run \in [Jobs -> {None, Some(QueuedRun)}]
    /\ run[2] = None
    /\ scan_pc = [j \in Jobs |-> IF j = 1 THEN "start" ELSE "none"]
    /\ NoCall

SpecScan == InitScan /\ [][NextScan]_vars

\* the same, every pending step of the job eventually taken
LiveSpecScan == InitScan /\ [][NextScan]_vars /\ WF_vars(NextScan)

----------------------------------------------------------------------------
(* Properties of a page visit inside a job *)

\* the page at u ends in a page-level failure: no navigation attempt gets a
\* response, or the processing raises outside the guarded steps
PageLevelFailure(u) ==
    \/ TheOnly(site.pages[u].nav) >= 3
    \/ TheOnly(site.pages[u].proc) # "ok"

\* C12: an inspector, the screenshot or the link classifier raising during a
\* visit never costs the page its PageRecord nor counts as a failure: every
\* settled visit that is not a page-level failure has its record whichever
\* steps raised on it, the anomaly detector holds the page-level failures
\* only, and its count is the run of page-level failures at the end of the
\* settled visits; a page whose classifier raised gives the frontier nothing.
C12_InspectorFailureDegrades ==
    \A j \in jobs :
        LET failures == { u \in Range(Settled(j)) : PageLevelFailure(u) }
        IN  /\ URLsOf(page_data[j]) = Keep(Settled(j), Range(Settled(j)) \ failures)
            /\ anomalies[j] = Keep(Settled(j), failures)
            /\ consecutive_err[j] = TrailingFailures(Settled(j), Range(Settled(j)) \ failures)
            /\ \A u \in Range(enq_log[j]) :
                   u = normalize_url(base_url[j])
                   \/ \E v \in Range(nav_log[j]) :
                          /\ "links" \notin TheOnly(site.pages[v].fails)
                          /\ u \in Range(classify_links(TheOnly(site.pages[v].hrefs), base_url[j]))

\* three pages recorded on each of which some step raised (the classifier on
\* one of them), after which a page failed to load
C12_Witness ==
    /\ Len(page_data[1]) = 3
    /\ \A i \in 1..3 : TheOnly(site.pages[page_data[1][i].url].fails) # {}
    /\ \E i \in 1..3 : "links" \in TheOnly(site.pages[page_data[1][i].url].fails)
    /\ consecutive_err[1] = 1
    /\ pc[1] = "done"

StatusOf(j) == IF run[j] = None THEN "no row" ELSE run[j][1].status

\* C13: when main() raises, run_scan marks the row failed, saves no page
\* result and never marks it completed; the status only moves queued ->
\* running -> completed or failed (a completed row may still be marked failed
\* when saving the page results raises), and every run_scan on an existing row
\* ends with the status completed or failed.
C13_ScanStatus ==
    /\ [](\A j \in jobs :
            run[j] # None =>
                /\ pc[j] = "raised" => (StatusOf(j) # "completed" /\ run[j][1].page_results = 0)
                /\ (pc[j] = "raised" /\ scan_pc[j] = "returned") => StatusOf(j) = "failed"
                /\ scan_pc[j] = "returned" => StatusOf(j) \in {"completed", "failed"})
    /\ [][\A j \in Jobs :
            StatusOf(j)' # StatusOf(j) =>
                <<StatusOf(j), StatusOf(j)'>> \in
                    { <<"queued", "running">>, <<"running", "completed">>,
                      <<"running", "failed">>, <<"completed", "failed">> }]_vars
    /\ <>(\A j \in jobs : run[j] # None => StatusOf(j) \in {"completed", "failed"})

\* C14: update_fn is called once for every PageRecord, as part of the visit
\* that appended it (so before the next URL is dequeued) and in the order of
\* the records: the i-th call carries scanned = i, with scanned <= total and
\* scanned <= discovered; a call that raises is not a page failure: the
\* anomaly count is 0 after it, the URL is not among the anomalies, and the
\* later records get their calls.
C14_ProgressCallback ==
    \A j \in jobs :
        scan_pc[j] # "none" =>
            /\ Len(update_log[j]) = Len(page_data[j])
            /\ \A i \in 1..Len(update_log[j]) :
                   LET a == update_log[j][i].args
                   IN  /\ a.scanned = i
                       /\ a.scanned <= a.total
                       /\ a.scanned <= a.discovered
            /\ Range(anomalies[j]) \cap RecordedURLs(j) = {}
            /\ consecutive_err[j] = TrailingFailures(Settled(j), RecordedURLs(j))
            /\ (run[j] # None /\ scan_pc[j] = "crawl") => run[j][1].scanned_pages <= Len(page_data[j])

\* three calls in a job, the first of which raised, under a page cap
C14_Witness ==
    /\ Len(update_log[1]) >= 3
    /\ update_log[1][1].raised
    /\ ~update_log[1][3].raised
    /\ update_log[1][3].args.scanned = 3
    /\ run[1] # None
    /\ run[1][1].scanned_pages = 3

----------------------------------------------------------------------------
(* engines/scoring_engine.py.  Scores are kept in tenths of a point         *)
(* (round(x, 1) of the code is a whole number of tenths), deductions in     *)
(* points, weights in hundredths.                                           *)

Min(a, b) == IF a <= b THEN a ELSE b
Max(a, b) == IF a >= b THEN a ELSE b

\* the whole number nearest to n / d, a tie going to the even one (round())
RoundDiv(n, d) ==
    LET q == n \div d
        r == n % d
    IN  IF 2 * r < d THEN q
        ELSE IF 2 * r > d THEN q + 1
        ELSE IF q % 2 = 0 THEN q ELSE q + 1

RECURSIVE SumOver(_, _)
SumOver(S, f) ==
    IF S = {} THEN 0
    ELSE LET x == CHOOSE y \in S : TRUE
         IN  f[x] + SumOver(S \ {x}, f)

Components == {"performance", "accessibility", "security", "functional", "ui_form"}

WEIGHTS ==
    [performance |-> 30, accessibility |-> 25, security |-> 20, functional |-> 15, ui_form |-> 10]

\* the deduction for the HTTP status and whether the breakdown names it
http_status_deduction(status) ==
    IF status = 404 THEN Some(80)
    ELSE IF status = 500 THEN Some(100)
    ELSE IF status # 0 /\ status >= 400 THEN Some(50)
    ELSE IF status = 200 THEN Some(0)
    ELSE None

\* mutant: the asset and third-party failures are counted with the links
broken_links_with_assets(page) ==
    page.broken_links + page.failed_assets + page.third_party_failures

\* page_data.get("broken_links") or []: how many
broken_links_of(page) == page.broken_links

\* compute_functional_score: the score and the deductions of its breakdown
compute_functional_score(page) ==
    LET http     == http_status_deduction(page.status)
        broken   == broken_links_of(page)
        b_deduct == IF broken > 0 THEN Min(30, broken * 5) ELSE 0
        j_deduct == IF page.js_errors > 0 THEN Min(20, page.js_errors * 3) ELSE 0
        n_deduct == IF page.errors > 0 THEN Min(15, page.errors * 2) ELSE 0
        r_deduct == IF page.redirect_chain_length > 2
                    THEN Min(10, (page.redirect_chain_length - 2) * 3) ELSE 0
        score    == 100 - (IF http = None THEN 0 ELSE http[1]) - b_deduct - j_deduct
                        - n_deduct - r_deduct
    IN  [score     |-> 10 * Max(0, Min(100, score)),
         breakdown |-> [http_status  |-> http,
                        broken_links |-> [count |-> broken, deduction |-> b_deduct],
                        js_errors    |-> [count |-> page.js_errors, deduction |-> j_deduct],
                        network_failures |-> n_deduct,
                        redirect_chain   |-> r_deduct]]

(* engines/form_analyzer.py.  A field is its type, name and tag; the keyword
   tests on a field name ("email" in name_lower) are kept as the set of the
   keywords the name contains.  Form scores are in points. *)

KeywordsIn ==
    [n \in {"", "username", "email", "phone", "age", "password"} |->
        CASE n = "email" -> {"email", "mail"}
          [] n = "phone" -> {"phone"}
          [] n = "age" -> {"age"}
          [] n = "password" -> {"password"}
          [] OTHER -> {}]

Issue(type, severity) == [type |-> type, severity |-> severity]

\* the issues of one field, in the order the checks run
field_issues(field) ==
    IF field.type \in {"hidden", "submit", "button", "reset"} THEN <<>>
    ELSE (IF KeywordsIn[field.name] \cap {"email", "e-mail", "mail"} # {} /\ field.type # "email"
          THEN <<Issue("wrong_input_type", "medium")>> ELSE <<>>)
         \o (IF KeywordsIn[field.name] \cap {"phone", "tel", "mobile"} # {}
                 /\ field.type \notin {"tel", "text"}
             THEN <<Issue("wrong_input_type", "low")>> ELSE <<>>)
         \o (IF KeywordsIn[field.name] \cap {"age", "quantity", "qty", "count", "number", "amount"} # {}
                 /\ field.type \notin {"number", "text"}
             THEN <<Issue("wrong_input_type", "low")>> ELSE <<>>)
         \o (IF field.name = "" /\ field.tag \notin {"button", "select"}
             THEN <<Issue("missing_name", "medium")>> ELSE <<>>)

RECURSIVE fields_issues(_)
fields_issues(fields) ==
    IF fields = <<>> THEN <<>>
    ELSE fields_issues(SubSeq(fields, 1, Len(fields) - 1)) \o field_issues(fields[Len(fields)])

deductions == [high |-> 20, medium |-> 10, low |-> 4]

\* form_raw.get("fields") or []
fields_of(form_raw) == IF "fields" \in DOMAIN form_raw THEN form_raw.fields ELSE <<>>

analyze_form(form_raw) ==
    LET fields      == fields_of(form_raw)
        field_count == Len(fields)
        has_submit  == \E i \in 1..field_count :
                           fields[i].type \in {"submit", "button"} \/ fields[i].tag = "button"
        issues ==
            (IF ~has_submit /\ form_raw.action = ""
             THEN <<Issue("missing_submit", "medium")>> ELSE <<>>)
            \o fields_issues(fields)
            \o (IF form_raw.method = "get" /\ field_count > 2
                    /\ \E i \in 1..field_count :
                           KeywordsIn[fields[i].name]
                               \cap {"password", "passwd", "secret", "token", "card"} # {}
                THEN <<Issue("sensitive_get_form", "high")>> ELSE <<>>)
        lost  == SumOver(1..Len(issues), [i \in 1..Len(issues) |-> deductions[issues[i].severity]])
        score == Max(0, Min(100, 100 - lost))
    IN  IF field_count = 0
        THEN [raw |-> form_raw, form_health_score |-> None,
              form_issue_count |-> 0, form_issues |-> <<>>]
        ELSE [raw |-> form_raw, form_health_score |-> Some(score),
              form_issue_count |-> Len(issues), form_issues |-> issues]

analyze_all_forms(forms_raw) == [i \in 1..Len(forms_raw) |-> analyze_form(forms_raw[i])]

\* compute_ui_form_score: forms is the list of the forms' form_health_score
\* (None counts in the average as 0), invisible_interactive the number of
\* ui_elements that are enabled and not visible
compute_ui_form_score(page) ==
    LET count     == Len(page.forms)
        scored    == { i \in 1..count : page.forms[i] # None }
        total     == SumOver(scored, [i \in scored |-> page.forms[i][1]])
        ui_deduct == IF page.invisible_interactive > 3
                     THEN Min(100, page.invisible_interactive * 15) ELSE 0
    IN  [score |-> IF count > 0
                   THEN Max(0, Min(1000, RoundDiv(Max(0, (1000 - ui_deduct) * count
                                                        - Max(0, 100 * count - total) * 5), count)))
                   ELSE 1000 - ui_deduct]

_risk_category(score) ==
    IF score >= 900 THEN "Excellent"
    ELSE IF score >= 750 THEN "Good"
    ELSE IF score >= 500 THEN "Needs Attention"
    ELSE "Critical"

\* mutant: a missing component counts as a score of 0 with its full weight
available_all(scores) == [k \in Components |-> IF scores[k] = None THEN 0 ELSE scores[k][1]]

\* {k: v for k, v in scores.items() if v is not None}
available_of(scores) == [k \in { c \in Components : scores[c] # None } |-> scores[k][1]]

\* compute_page_health_score: the weights of the missing components go to
\* the ones that are there
compute_page_health_score(scores) ==
    LET available == available_of(scores)
        total_available_weight == SumOver(DOMAIN available, WEIGHTS)
        weighted  == SumOver(DOMAIN available, [k \in DOMAIN available |-> available[k] * WEIGHTS[k]])
        health    == Max(0, Min(1000, RoundDiv(weighted, total_available_weight)))
    IN  IF DOMAIN available = {}
        THEN [health_score |-> None, risk_category |-> None, weights_used |-> {}]
        ELSE [health_score |-> Some(health), risk_category |-> Some(_risk_category(health)),
              weights_used |-> DOMAIN available]

RiskCategories == {"Excellent", "Good", "Needs Attention", "Critical"}

\* mutant: a page without a health score counts as a page scoring 0
valid_scores_zeroed(page_scores) ==
    [i \in 1..Len(page_scores) |->
        IF page_scores[i].health_score = None THEN 0 ELSE page_scores[i].health_score[1]]

\* the health scores that are not null, by position in the list
valid_scores(page_scores) ==
    [i \in { k \in 1..Len(page_scores) : page_scores[k].health_score # None } |->
        page_scores[i].health_score[1]]

\* the site-level aggregate of the page health breakdowns
compute_site_health_score(page_scores) ==
    LET valid == valid_scores(page_scores)
        scored == DOMAIN valid
        site_score == RoundDiv(SumOver(scored, valid), Cardinality(scored))
        vals(key) == [i \in { k \in 1..Len(page_scores) :
                                 page_scores[k].component_scores[key] # None } |->
                         page_scores[i].component_scores[key][1]]
    IN  IF scored = {}
        THEN [site_health_score |-> None, risk_category |-> None,
              page_count |-> Len(page_scores), scored_pages |-> 0]
        ELSE [site_health_score |-> Some(site_score),
              risk_category |-> Some(_risk_category(site_score)),
              page_count |-> Len(page_scores),
              scored_pages |-> Cardinality(scored),
              component_averages |->
                  [key \in Components |->
                      IF DOMAIN vals(key) = {} THEN None
                      ELSE Some(RoundDiv(SumOver(DOMAIN vals(key), vals(key)),
                                         Cardinality(DOMAIN vals(key))))],
              score_distribution |->
                  [c \in RiskCategories |->
                      Cardinality({ i \in scored :
                          CASE c = "Excellent" -> valid[i] >= 900
                            [] c = "Good" -> 750 <= valid[i] /\ valid[i] < 900
                            [] c = "Needs Attention" -> 500 <= valid[i] /\ valid[i] < 750
                            [] c = "Critical" -> valid[i] < 500 })],
              min_page_score |-> CHOOSE m \in { valid[i] : i \in scored } :
                                     \A i \in scored : m <= valid[i],
              max_page_score |-> CHOOSE m \in { valid[i] : i \in scored } :
                                     \A i \in scored : m >= valid[i]]

----------------------------------------------------------------------------
(* crawl_site, the processing of one page: the inspectors gated by the      *)
(* filters, the link data, the PageRecord with its scores.  A visit gives,  *)
(* for each inspector, what it does when called: it raises, returns an      *)
(* empty result, or returns data; the performance, accessibility and        *)
(* security data are kept as the score their engine computes from them.     *)

Raises == [kind |-> "raises"]
Empty == [kind |-> "empty"]
Data(x) == [kind |-> "data", value |-> x]

FilterNames ==
    {"ui_elements", "form_validation", "functional", "accessibility", "performance", "security"}

\* mutant: an empty filter set activates nothing
_filter_active_strict(active_filters, key) == key \in active_filters

\* _filter_active: no filters means every key is active
_filter_active(active_filters, key) ==
    IF active_filters = {} THEN TRUE ELSE key \in active_filters

\* an inspector called under try/except: its data, or the empty default
captured(active, outcome) == IF active /\ outcome.kind # "raises" THEN outcome ELSE Empty

\* the score of an engine on the raw data ("... if perf_raw else {score: None}")
score_of(raw) == IF raw.kind = "data" THEN Some(raw.value) ELSE None

\* the ui_elements that are enabled and not visible
invisible_interactive_of(ui_elements) ==
    Cardinality({ i \in 1..Len(ui_elements) :
                    /\ ~ui_elements[i].visible
                    /\ "enabled" \in DOMAIN ui_elements[i]
                    /\ ui_elements[i].enabled })

\* the PageRecord built from a visit (the fields the scores and the
\* confidence read); forms is the list of the form_health_score of the
\* analyzed forms
page_object(visit) ==
    LET f        == visit.active_filters
        dom_data == captured(_filter_active(f, "ui_elements") \/ _filter_active(f, "form_validation")
                               \/ f = {}, visit.dom)
        perf_raw == captured(_filter_active(f, "performance"), visit.perf)
        a11y_raw == captured(_filter_active(f, "accessibility"), visit.a11y)
        security_raw == captured(_filter_active(f, "security"), visit.security)
        classified   == captured(TRUE, visit.links)
        broken_nav   == IF classified.kind = "data" /\ (_filter_active(f, "functional") \/ f = {})
                        THEN classified.value.broken_navigation_links ELSE 0
        base == [url    |-> visit.url,
                 status |-> visit.status,
                 result |-> IF visit.status = 200 THEN "pass" ELSE "fail",
                 forms  |-> IF dom_data.kind = "data"
                            THEN LET analyzed_forms == analyze_all_forms(dom_data.value.forms)
                                 IN  [i \in 1..Len(analyzed_forms) |->
                                         analyzed_forms[i].form_health_score]
                            ELSE <<>>,
                 invisible_interactive |->
                            IF dom_data.kind = "data"
                            THEN invisible_interactive_of(dom_data.value.ui_elements) ELSE 0,
                 connected_pages |-> IF classified.kind = "data"
                                     THEN classified.value.internal_links ELSE <<>>,
                 performance_score   |-> score_of(perf_raw),
                 accessibility_score |-> score_of(a11y_raw),
                 security_score      |-> score_of(security_raw),
                 broken_navigation_links |-> broken_nav,
                 failed_assets |-> visit.failed_assets,
                 third_party_failures |-> visit.third_party_failures,
                 broken_links  |-> broken_nav,
                 errors        |-> 0,
                 js_errors     |-> visit.js_errors,
                 redirect_chain_length |-> visit.redirect_chain_length,
                 screenshot    |-> score_of(captured(TRUE, visit.screenshot))]
        functional_score == IF _filter_active(f, "functional")
                            THEN Some(compute_functional_score(base).score) ELSE None
        ui_form_score    == IF _filter_active(f, "form_validation") \/ _filter_active(f, "ui_elements")
                            THEN Some(compute_ui_form_score(base).score) ELSE None
        health == compute_page_health_score(
                      [performance   |-> base.performance_score,
                       accessibility |-> base.accessibility_score,
                       security      |-> base.security_score,
                       functional    |-> functional_score,
                       ui_form       |-> ui_form_score])
    IN  [url |-> base.url, status |-> base.status, result |-> base.result,
         forms |-> base.forms, connected_pages |-> base.connected_pages,
         performance_score |-> base.performance_score,
         accessibility_score |-> base.accessibility_score,
         security_score |-> base.security_score,
         functional_score |-> functional_score,
         ui_form_score |-> ui_form_score,
         broken_navigation_links |-> base.broken_navigation_links,
         failed_assets |-> base.failed_assets,
         third_party_failures |-> base.third_party_failures,
         js_errors |-> base.js_errors,
         redirect_chain_length |-> base.redirect_chain_length,
         screenshot |-> base.screenshot,
         health_score |-> health.health_score,
         risk_category |-> health.risk_category]

----------------------------------------------------------------------------
(* confidence_engine.py: weights in hundredths, ratios and factors in
   ten-thousandths (1.0 is 10000), the confidence in tenths of a point *)

POSSIBLE_CHECKS ==
    {"performance_score", "accessibility_score", "security_score", "functional_score",
     "ui_form_score", "fcp_ms", "lcp_ms", "ttfb_ms", "load_time", "accessibility_issues",
     "is_https"}

CHECK_WEIGHTS ==
    [c \in POSSIBLE_CHECKS |->
        CASE c \in {"performance_score", "accessibility_score", "security_score"} -> 15
          [] c \in {"functional_score", "fcp_ms", "lcp_ms"} -> 10
          [] c = "ui_form_score" -> 5
          [] c = "ttfb_ms" -> 8
          [] c = "load_time" -> 7
          [] c = "accessibility_issues" -> 3
          [] c = "is_https" -> 2]

filter_check_map(f) ==
    CASE f = "performance" -> {"performance_score", "fcp_ms", "lcp_ms", "ttfb_ms", "load_time"}
      [] f = "accessibility" -> {"accessibility_score", "accessibility_issues"}
      [] f = "security" -> {"security_score", "is_https"}
      [] f = "functional" -> {"functional_score"}
      [] f \in {"ui_elements", "form_validation"} -> {"ui_form_score"}
      [] OTHER -> {}

\* the per-page completeness: the weight of the expected checks that have a value
compute_confidence_score(page, active_filters) ==
    LET mapped == UNION { filter_check_map(f) : f \in active_filters }
        expected_checks == IF active_filters # {} /\ mapped # {} THEN mapped ELSE POSSIBLE_CHECKS
        done == { c \in expected_checks : page.checks[c] # None }
        weight_total   == SumOver(expected_checks, CHECK_WEIGHTS)
        weighted_score == SumOver(done, CHECK_WEIGHTS)
    IN  [confidence_score   |-> Some(RoundDiv(weighted_score * 1000, weight_total)),
         checks_executed    |-> Cardinality(done),
         checks_null        |-> Cardinality(expected_checks \ done),
         completeness_ratio |-> RoundDiv(weighted_score * 10000, weight_total)]

\* math.sqrt, to the whole number below
RECURSIVE sqrt_between(_, _, _)
sqrt_between(lo, hi, v) ==
    IF hi - lo <= 1 THEN lo
    ELSE LET mid == (lo + hi) \div 2
         IN  IF mid * mid <= v THEN sqrt_between(mid, hi, v) ELSE sqrt_between(lo, mid, v)

sqrt(v) == sqrt_between(0, 46341, v)

\* mutant: the discovered URLs are counted as a list, repeats included
crawl_coverage_ratio_listed(pages) ==
    LET n == Len(pages)
        listed == [i \in 1..n |-> 1 + Cardinality(pages[i].connected_pages)]
        total_discovered == Max(n, SumOver(1..n, listed))
    IN  Min(10000, (n * 10000) \div total_discovered)

\* Factor 1: pages scanned over pages discovered
crawl_coverage_ratio(pages) ==
    LET n == Len(pages)
        discovered_urls == { pages[i].url : i \in 1..n }
                           \cup UNION { pages[i].connected_pages : i \in 1..n }
        total_discovered == Max(n, Cardinality(discovered_urls))
    IN  Min(10000, (n * 10000) \div total_discovered)

\* Factor 2: the mean per-page completeness, penalised for missing scores
completeness_ratio(pages, active_filters) ==
    LET n == Len(pages)
        cr == [i \in 1..n |-> compute_confidence_score(pages[i], active_filters).completeness_ratio]
        mean == SumOver(1..n, cr) \div n
        scored == IF active_filters = {} THEN {"performance", "accessibility", "security"}
                  ELSE active_filters \cap {"performance", "accessibility", "security"}
        score_key == [performance |-> "performance_score", accessibility |-> "accessibility_score",
                      security |-> "security_score"]
        missing == [i \in 1..n |->
                       Cardinality({ k \in scored : pages[i].checks[score_key[k]] = None })]
        missing_scores  == SumOver(1..n, missing)
        expected_scores == n * Cardinality(scored)
        missing_ratio == IF expected_scores > 0 THEN (missing_scores * 10000) \div expected_scores
                         ELSE 0
    IN  (mean * (10000 - missing_ratio \div 2)) \div 10000

\* Factor 3: one minus the standard deviation of the health scores over 35
error_stability(pages) ==
    LET n == Len(pages)
        with == { i \in 1..n : pages[i].health_score # None }
        k  == Cardinality(with)
        h  == [i \in with |-> pages[i].health_score[1]]
        sq == [i \in with |-> h[i] * h[i]]
        \* k * k times the variance, in tenths of a point squared
        spread == k * SumOver(with, sq) - SumOver(with, h) * SumOver(with, h)
    IN  IF k >= 2 THEN Max(0, 10000 - (sqrt(spread) * 10000) \div (k * 350))
        ELSE IF k = 1 THEN 7000
        ELSE 5000

\* Factor 4: one minus five times the broken navigation link density
link_integrity(total_broken_nav, total_nav_links) ==
    IF total_nav_links > 0
    THEN Max(0, 10000 - Min(10000, (total_broken_nav * 10000 * 5) \div total_nav_links))
    ELSE IF total_broken_nav = 0 THEN 10000 ELSE 5000

\* Factor 5: one minus the JS errors per page over four
js_cleanliness(total_js_errors, n) ==
    Max(0, 10000 - Min(10000, (total_js_errors * 10000) \div (n * 4)))

\* mutant: the factor is not held at zero
redirect_stability_unclamped(unstable_redirects, n) ==
    10000 - ((unstable_redirects * 10000) \div n) * 2

\* Factor 6: one minus twice the share of pages with a redirect chain over 2
redirect_stability(unstable_redirects, n) ==
    Max(0, 10000 - ((unstable_redirects * 10000) \div n) * 2)

\* the run-level confidence, with the six factors it logs
compute_run_confidence(pages, active_filters) ==
    IF pages = <<>> THEN [confidence |-> 0, factors |-> None]
    ELSE
    LET n == Len(pages)
        broken == [i \in 1..n |-> pages[i].broken_navigation_links]
        links  == [i \in 1..n |-> pages[i].ui_summary.links]
        js     == [i \in 1..n |-> pages[i].js_errors]
        f == [coverage       |-> crawl_coverage_ratio(pages),
              completeness   |-> completeness_ratio(pages, active_filters),
              stability      |-> error_stability(pages),
              link_integrity |-> link_integrity(SumOver(1..n, broken), SumOver(1..n, links)),
              js_clean       |-> js_cleanliness(SumOver(1..n, js), n),
              redirect       |-> redirect_stability(
                                     Cardinality({ i \in 1..n : pages[i].redirect_chain_length > 2 }),
                                     n)]
        \* in millionths
        weighted == f.coverage * 30 + f.completeness * 25 + f.stability * 20
                    + f.link_integrity * 15 + f.js_clean * 5 + f.redirect * 5
    IN  [confidence |-> RoundDiv(Max(0, Min(1000000, weighted)), 1000), factors |-> Some(f)]

----------------------------------------------------------------------------
(* The scoring functions called on their own: a call and what it returns *)

FunctionalStatuses == {0, 200, 301, 403, 404, 500, 503, 599}

\* the page dicts handed to compute_functional_score
FunctionalPages ==
    [status : FunctionalStatuses, broken_links : 0..MaxBroken, js_errors : 0..MaxJsErrors,
     errors : {0}, redirect_chain_length : 0..MaxRedirects,
     failed_assets : {0, 2}, third_party_failures : {0, 1}]

ScoreValues == {0, 455, 870, 1000}

\* the five component scores handed to compute_page_health_score
ComponentScores == [Components -> {None} \cup { Some(v) : v \in ScoreValues }]

\* the fields a form may carry
FieldKinds ==
    { [type |-> "text", name |-> "username", tag |-> "input"],
      [type |-> "email", name |-> "email", tag |-> "input"],
      [type |-> "text", name |-> "email", tag |-> "input"],
      [type |-> "number", name |-> "phone", tag |-> "input"],
      [type |-> "range", name |-> "age", tag |-> "input"],
      [type |-> "text", name |-> "", tag |-> "input"],
      [type |-> "password", name |-> "password", tag |-> "input"],
      [type |-> "submit", name |-> "", tag |-> "input"] }

\* a form as capture_dom_elements returns it: id, action, method and the
\* inputs with their type and name
DiscoveredForm(action, method, fields) ==
    [id |-> None, action |-> action, method |-> method,
     inputs |-> [i \in 1..Len(fields) |-> [type |-> fields[i].type, name |-> fields[i].name]]]

\* the forms handed to analyze_form: the discovered ones, and dicts that
\* carry a field list under "fields" (the last with eleven unnamed fields)
FormRaws ==
    { DiscoveredForm(action, method, fields) :
          action \in {"", "/submit"}, method \in {"get", "post"},
          fields \in SeqsUpTo(FieldKinds, MaxFields) }
    \cup [action : {"", "/submit"}, method : {"get", "post"},
          fields : SeqsUpTo(FieldKinds, MaxFields)
                   \cup { [i \in 1..11 |-> [type |-> "text", name |-> "", tag |-> "input"]] }]

\* a login form with nothing to flag: a text field, a password field, a
\* submit button, sent by POST
LoginFields ==
    << [type |-> "text", name |-> "username", tag |-> "input"],
       [type |-> "password", name |-> "password", tag |-> "input"],
       [type |-> "submit", name |-> "", tag |-> "input"] >>

\* the visits of a page: filters, status, what each inspector gives
Visits ==
    [url : {URL(SiteHost, 0, "", FALSE, FALSE)},
     active_filters : SUBSET FilterNames,
     status : Statuses,
     dom : {Raises, Data([forms |-> <<>>, ui_elements |-> <<>>]),
            Data([forms |-> <<DiscoveredForm("/login", "post", LoginFields)>>,
                  ui_elements |-> [i \in 1..4 |-> [tag |-> "a", visible |-> FALSE]]])},
     perf : {Raises, Empty, Data(455)},
     a11y : {Raises, Data(870)},
     security : {Raises, Data(1000)},
     links : {Raises,
              Data([broken_navigation_links |-> 0, internal_links |-> <<>>]),
              Data([broken_navigation_links |-> 3,
                    internal_links |-> <<URL(SiteHost, 1, "", FALSE, FALSE)>>])},
     failed_assets : {0, 2},
     third_party_failures : {0, 1},
     js_errors : {1},
     redirect_chain_length : {0},
     screenshot : {Raises, Data("screenshots/run.png")}]

\* the page records handed to compute_run_confidence, by the fields it reads
ConfidencePages ==
    { [url |-> where[1], connected_pages |-> where[2],
       checks |-> [c \in POSSIBLE_CHECKS |-> IF c \in present THEN Some(1) ELSE None],
       health_score |-> health,
       broken_navigation_links |-> nav[1], ui_summary |-> [links |-> nav[2]],
       js_errors |-> load[1], redirect_chain_length |-> load[2]] :
        where \in {<<URL(SiteHost, 0, "", FALSE, FALSE),
                     {URL(SiteHost, 1, "", FALSE, FALSE), URL(SiteHost, 2, "", FALSE, FALSE)}>>,
                   <<URL(SiteHost, 1, "", FALSE, FALSE), {}>>},
        present \in {{}, POSSIBLE_CHECKS, POSSIBLE_CHECKS \ filter_check_map("performance")},
        health \in {None, Some(0), Some(1000)},
        nav \in {<<0, 0>>, <<3, 0>>, <<3, 10>>},
        load \in {<<0, 0>>, <<MaxJsErrors, MaxRedirects>>} }

RunFilterSets == {{}, {"performance", "functional"}, {"ui_elements"}, FilterNames}

\* build_reports hands the page list and the filters of the run
ConfidenceCalls ==
    [fn : {"compute_run_confidence"},
     pages : UNION { [1..k -> ConfidencePages] : k \in 0..MaxRunPages },
     active_filters : RunFilterSets]

\* the health_breakdown of a page: what compute_page_health_score returned
health_breakdown(scores) ==
    LET health_data == compute_page_health_score(scores)
    IN  [health_score |-> health_data.health_score,
         risk_category |-> health_data.risk_category,
         component_scores |-> scores]

SiteScoreValues == {0, 499, 500, 749, 750, 899, 900, 1000}

\* the breakdowns of pages with no score at all, with one score, with two
HealthBreakdowns ==
    { health_breakdown([k \in Components |-> None]) }
    \cup { health_breakdown([k \in Components |-> IF k = "performance" THEN Some(v) ELSE None]) :
             v \in SiteScoreValues }
    \cup { health_breakdown([k \in Components |->
                               IF k = "security" THEN Some(1000)
                               ELSE IF k = "functional" THEN Some(500) ELSE None]) }

Calls ==
    [fn : {"analyze_form"}, form_raw : FormRaws]
    \cup [fn : {"compute_site_health_score"},
     page_scores : UNION { [1..k -> HealthBreakdowns] : k \in 0..MaxSitePages }]
    \cup [fn : {"compute_functional_score"}, page : FunctionalPages]
    \cup [fn : {"compute_page_health_score"}, scores : ComponentScores]
    \cup [fn : {"page_object"}, visit : Visits]

\* one call, no crawl under way
InitScore ==
    /\ call \in Calls
    /\ returned = None
    /\ jobs = {}
    /\ site = [kind |-> "any"]
    /\ base_url \in [Jobs -> BaseURLs]
    /\ max_pages = [j \in Jobs |-> None]
    /\ threshold = 1
    /\ JobsInit
    /\ NoScan

ComputeFunctionalScore ==
    /\ call.fn = "compute_functional_score" /\ returned = None
    /\ returned' = Some(compute_functional_score(call.page))
    /\ UNCHANGED <<call, crawl_vars, scan_vars>>

ComputePageHealthScore ==
    /\ call.fn = "compute_page_health_score" /\ returned = None
    /\ returned' = Some(compute_page_health_score(call.scores))
    /\ UNCHANGED <<call, crawl_vars, scan_vars>>

\* the processing of one visited page, up to the PageRecord
ProcessPage ==
    /\ call.fn = "page_object" /\ returned = None
    /\ returned' = Some(page_object(call.visit))
    /\ UNCHANGED <<call, crawl_vars, scan_vars>>

\* the confidence of a run over its page records
ComputeRunConfidence ==
    /\ call.fn = "compute_run_confidence" /\ returned = None
    /\ returned' = Some(compute_run_confidence(call.pages, call.active_filters))
    /\ UNCHANGED <<call, crawl_vars, scan_vars>>

\* build_reports aggregates the health breakdowns of the pages
ComputeSiteHealthScore ==
    /\ call.fn = "compute_site_health_score" /\ returned = None
    /\ returned' = Some(compute_site_health_score(call.page_scores))
    /\ UNCHANGED <<call, crawl_vars, scan_vars>>

AnalyzeForm ==
    /\ call.fn = "analyze_form" /\ returned = None
    /\ returned' = Some(analyze_form(call.form_raw))
    /\ UNCHANGED <<call, crawl_vars, scan_vars>>

NextScore ==
    \/ AnalyzeForm
    \/ ComputeFunctionalScore
    \/ ComputePageHealthScore
    \/ ProcessPage
    \/ ComputeSiteHealthScore

SpecScore == InitScore /\ [][NextScore]_vars

\* one call of compute_run_confidence, no crawl under way
InitConfidence ==
    /\ call \in ConfidenceCalls
    /\ returned = None
    /\ jobs = {}
    /\ site = [kind |-> "any"]
    /\ base_url \in [Jobs -> BaseURLs]
    /\ max_pages = [j \in Jobs |-> None]
    /\ threshold = 1
    /\ JobsInit
    /\ NoScan

NextConfidence == ComputeRunConfidence

SpecConfidence == InitConfidence /\ [][NextConfidence]_vars

----------------------------------------------------------------------------
(* The three link buckets of a page: the anchors classify_links checks, the
   network events the response listeners hear *)

WwwHost == "www.a.com"

\* netloc.lstrip("www."): the leading run of "w" and "." is dropped
lstrip_www(netloc) == IF netloc = WwwHost THEN SiteHost ELSE netloc

is_third_party(base, u) ==
    lstrip_www(u.netloc) # lstrip_www(base.netloc) /\ u.netloc # ""

\* context.request.get on a check target: a status, a timeout or net:: error,
\* or another error (a TLS mismatch)
CheckOutcomes == {"200", "404", "timeout", "ssl"}

\* classify_links, the broken_navigation_links it returns
broken_navigation_links_of(hrefs, base, check) ==
    LET check_targets == Dedup(InternalOf(hrefs, base))
        broken == SelectSeq(check_targets, LAMBDA href : check[href] \in {"404", "timeout"})
    IN  [i \in 1..Len(broken) |->
            [url |-> broken[i],
             status |-> IF check[broken[i]] = "404" THEN Some(404) ELSE None]]

\* handle_response, handle_request_failed: the events that report a failure
failing(event) == event.kind = "requestfailed" \/ event.status >= 400

failed_assets_of(events) ==
    SelectSeq(events, LAMBDA ev : failing(ev) /\ is_asset_url(ev.url))

\* mutant: the third-party test is an `if`, not an `elif`
third_party_failures_of_any(events, base) ==
    SelectSeq(events, LAMBDA ev : failing(ev) /\ is_third_party(base, ev.url))

third_party_failures_of(events, base) ==
    SelectSeq(events, LAMBDA ev : failing(ev) /\ ~is_asset_url(ev.url)
                                     /\ is_third_party(base, ev.url))

\* link_data as the PageRecord takes it: the listener lists merged in, the
\* navigation bucket emptied when the functional filter is off
link_data(visit) ==
    [broken_navigation_links |->
         IF _filter_active(visit.active_filters, "functional") \/ visit.active_filters = {}
         THEN broken_navigation_links_of(visit.hrefs, visit.base_url, visit.check)
         ELSE <<>>,
     failed_assets        |-> failed_assets_of(visit.events),
     third_party_failures |-> third_party_failures_of(visit.events, visit.base_url),
     internal_links       |-> classify_links(visit.hrefs, visit.base_url)]

\* the anchors of the page: a page, a page with a fragment, an image, a page
\* of another host, a page of the www. host
LinkHrefs ==
    { URL(SiteHost, 1, "", FALSE, FALSE),
      URL(SiteHost, 2, "", FALSE, TRUE),
      URL(SiteHost, 1, ".png", FALSE, FALSE),
      URL(OtherHost, 1, "", FALSE, FALSE),
      URL(WwwHost, 1, "", FALSE, FALSE) }

CheckTargets == { URL(SiteHost, 1, "", FALSE, FALSE), URL(SiteHost, 2, "", FALSE, FALSE) }

\* what the listeners hear: responses with a status, failed requests
NetworkEvents ==
    [kind : {"response"}, status : {404},
     url : { URL(SiteHost, 1, "", FALSE, FALSE), URL(SiteHost, 1, ".png", FALSE, FALSE),
             URL(OtherHost, 1, ".js", FALSE, FALSE), URL(OtherHost, 1, "", FALSE, FALSE),
             URL(WwwHost, 1, "", FALSE, FALSE) }]
    \cup [kind : {"response"}, status : {200}, url : { URL(SiteHost, 1, ".png", FALSE, FALSE) }]
    \cup [kind : {"requestfailed"}, status : {0},
          url : { URL(SiteHost, 1, ".png", FALSE, FALSE), URL(OtherHost, 1, "", FALSE, FALSE) }]

LinkVisits ==
    [base_url : BaseURLs,
     active_filters : {{}, {"functional"}, {"performance"}},
     hrefs : SeqsUpTo(LinkHrefs, MaxLinks),
     check : [CheckTargets -> CheckOutcomes],
     events : SeqsUpTo(NetworkEvents, MaxEvents)]

\* one page's links classified, no crawl under way
InitLinks ==
    /\ call \in [fn : {"link_data"}, visit : LinkVisits]
    /\ returned = None
    /\ jobs = {}
    /\ site = [kind |-> "any"]
    /\ base_url \in [Jobs -> BaseURLs]
    /\ max_pages = [j \in Jobs |-> None]
    /\ threshold = 1
    /\ JobsInit
    /\ NoScan

ClassifyLinks ==
    /\ call.fn = "link_data" /\ returned = None
    /\ returned' = Some(link_data(call.visit))
    /\ UNCHANGED <<call, crawl_vars, scan_vars>>

NextLinks == ClassifyLinks

SpecLinks == InitLinks /\ [][NextLinks]_vars

----------------------------------------------------------------------------
(* confidence_engine.py, the failure pattern and the root cause tag of a page.
   A tag is kept as the list of its tokens (the string joins them with "+"),
   a pattern id as the set of flags it hashes. *)

compute_failure_pattern_id(page) ==
    LET a11y  == IF page.accessibility_data.kind = "data" THEN page.accessibility_data.value
                 ELSE [total_issues |-> 0]
        sec   == IF page.security_data.kind = "data" THEN page.security_data.value
                 ELSE [severity_counts |-> [critical |-> 0]]
        flags == (IF page.status >= 400 THEN {"http_error"} ELSE {})
                 \cup (IF page.broken_navigation_links > 0 THEN {"broken_nav"} ELSE {})
                 \cup (IF page.js_errors > 2 THEN {"js_errors"} ELSE {})
                 \cup (IF a11y.total_issues > 5 THEN {"a11y_issues"} ELSE {})
                 \cup (IF sec.severity_counts.critical > 0 THEN {"sec_critical"} ELSE {})
    IN  IF flags = {} THEN None ELSE Some(flags)

\* {f.get("category") for f in findings if f.get("severity") in ("critical", "high")}
sec_categories(page) ==
    IF page.security_data.kind # "data" THEN {}
    ELSE LET findings == page.security_data.value.findings
         IN  { findings[i].category :
                   i \in { k \in 1..Len(findings) : findings[k].severity \in {"critical", "high"} } }

\* list(a set of strings): the order is that of the hash table, and str
\* hashes are salted per interpreter process
Orderings(S) ==
    { q \in [1..Cardinality(S) -> S] : \A i, k \in 1..Cardinality(S) : q[i] = q[k] => i = k }

\* mutant: the tag is not cut
tags_uncut(tags) == tags

\* tags[:5]
tags_cut(tags) == SubSeq(tags, 1, Min(5, Len(tags)))

\* compute_root_cause_tag, sec_cats being the list the set gave
compute_root_cause_tag(page, sec_cats) ==
    LET a11y   == page.accessibility_data
        checks == IF a11y.kind = "data" THEN a11y.value.checks
                  ELSE [missing_alt |-> 0, unlabeled_inputs |-> 0]
        tags ==
            (IF checks.missing_alt > 0 THEN <<"missing_alt">> ELSE <<>>)
            \o (IF checks.unlabeled_inputs > 0 THEN <<"unlabeled_inputs">> ELSE <<>>)
            \o (IF ~(a11y.kind = "data" /\ a11y.value.has_lang_attr)
                THEN <<"no_lang_attr">> ELSE <<>>)
            \o SubSeq(sec_cats, 1, Min(2, Len(sec_cats)))
            \o (IF page.broken_navigation_links > 0 THEN <<"broken_nav_links">> ELSE <<>>)
            \o (IF page.lcp_ms # None /\ page.lcp_ms[1] > 4000 THEN <<"slow_lcp">> ELSE <<>>)
    IN  IF tags = <<>> THEN None ELSE Some(tags_cut(tags))

Finding(category, severity) == [category |-> category, severity |-> severity]

\* security data with its findings and the count of the critical ones
SecurityData(findings) ==
    Data([findings |-> findings,
          severity_counts |->
              [critical |-> Cardinality({ i \in 1..Len(findings) :
                                            findings[i].severity = "critical" })]])

\* the pages handed to enrich_page_with_ai_fields, by the fields the two
\* functions read: accessibility data absent ({}), failed (checks null) or
\* there; security findings; broken links; LCP; status; JS errors
TagPages ==
    [accessibility_data :
         {Empty, [kind |-> "error"]}
         \cup { Data([checks |-> [missing_alt |-> m, unlabeled_inputs |-> u],
                      has_lang_attr |-> l, total_issues |-> 3 * (m + u)]) :
                    m \in {0, 2}, u \in {0, 1}, l \in BOOLEAN },
     security_data :
         {Empty, SecurityData(<<>>),
          SecurityData(<<Finding("csp", "critical")>>),
          SecurityData(<<Finding("clickjacking", "medium")>>),
          SecurityData(<<Finding("csp", "high"), Finding("csp", "medium"),
                         Finding("hsts", "high")>>),
          SecurityData(<<Finding("https", "critical"), Finding("hsts", "high"),
                         Finding("csp", "high")>>)},
     broken_navigation_links : {0, 1},
     lcp_ms : {None, Some(4000), Some(4001)},
     status : Statuses,
     js_errors : {0, 3}]

\* one page enriched, no crawl under way
InitTag ==
    /\ call \in [fn : {"enrich_page_with_ai_fields"}, page : TagPages]
    /\ returned = None
    /\ jobs = {}
    /\ site = [kind |-> "any"]
    /\ base_url \in [Jobs -> BaseURLs]
    /\ max_pages = [j \in Jobs |-> None]
    /\ threshold = 1
    /\ JobsInit
    /\ NoScan

\* the AI fields of the page as one evaluation gives them
ai_fields(page, sec_cats) ==
    [failure_pattern_id |-> compute_failure_pattern_id(page),
     root_cause_tag     |-> compute_root_cause_tag(page, sec_cats)]

EnrichPage ==
    /\ call.fn = "enrich_page_with_ai_fields" /\ returned = None
    /\ \E sec_cats \in Orderings(sec_categories(call.page)) :
           returned' = <<ai_fields(call.page, sec_cats)>>
    /\ UNCHANGED <<call, crawl_vars, scan_vars>>

\* the same page data enriched once more, by another worker process
EnrichAgain ==
    /\ call.fn = "enrich_page_with_ai_fields" /\ Len(returned) = 1
    /\ \E sec_cats \in Orderings(sec_categories(call.page)) :
           returned' = Append(returned, ai_fields(call.page, sec_cats))
    /\ UNCHANGED <<call, crawl_vars, scan_vars>>

NextTag == EnrichPage \/ EnrichAgain

SpecTag == InitTag /\ [][NextTag]_vars

----------------------------------------------------------------------------
(* normalize_url on the text of a URL.  A URL is "http://a.com" followed by a
   tail, kept as the list of its characters; urlparse and urlunparse are
   those of urllib.parse for the http scheme. *)

UrlChars == {"x", "/", ";", "?", "#"}

\* str.find: the first place of character c in text at or after place from, or 0
find(text, c, from) ==
    IF \E i \in from..Len(text) : text[i] = c
    THEN CHOOSE i \in from..Len(text) : text[i] = c /\ \A k \in from..(i - 1) : text[k] # c
    ELSE 0

\* str.rfind: the last place of character c in text, or 0
rfind(text, c) ==
    IF \E i \in 1..Len(text) : text[i] = c
    THEN CHOOSE i \in 1..Len(text) : text[i] = c /\ \A k \in (i + 1)..Len(text) : text[k] # c
    ELSE 0

\* text[:i] and text[i+1:] around place i; i = 0 leaves the text whole
before(text, i) == IF i = 0 THEN text ELSE SubSeq(text, 1, i - 1)
after(text, i) == IF i = 0 THEN <<>> ELSE SubSeq(text, i + 1, Len(text))

\* urlparse: the fragment after the first "#", the query after the first "?",
\* the netloc up to the first "/", the params after the first ";" of the last
\* path segment
urlparse(tail) ==
    LET hash     == find(tail, "#", 1)
        nofrag   == before(tail, hash)
        mark     == find(nofrag, "?", 1)
        noquery  == before(nofrag, mark)
        slash    == find(noquery, "/", 1)
        fullpath == IF slash = 0 THEN <<>> ELSE SubSeq(noquery, slash, Len(noquery))
        semi     == IF fullpath = <<>> THEN 0 ELSE find(fullpath, ";", rfind(fullpath, "/"))
    IN  [netloc   |-> IF slash = 0 THEN noquery ELSE before(noquery, slash),
         path     |-> before(fullpath, semi),
         params   |-> after(fullpath, semi),
         query    |-> after(nofrag, mark),
         fragment |-> after(tail, hash)]

\* urlunparse: a part that is empty is left out with its delimiter
urlunparse(parsed) ==
    parsed.netloc \o parsed.path
        \o (IF parsed.params # <<>> THEN <<";">> \o parsed.params ELSE <<>>)
        \o (IF parsed.query # <<>> THEN <<"?">> \o parsed.query ELSE <<>>)
        \o (IF parsed.fragment # <<>> THEN <<"#">> \o parsed.fragment ELSE <<>>)

\* str.rstrip("/")
RECURSIVE rstrip(_)
rstrip(text) ==
    IF text # <<>> /\ text[Len(text)] = "/" THEN rstrip(SubSeq(text, 1, Len(text) - 1)) ELSE text

normalize_url_text(tail) ==
    rstrip(urlunparse([urlparse(tail) EXCEPT !.fragment = <<>>]))

UrlTails == SeqsUpTo(UrlChars, MaxUrlLen)

\* one URL normalized, no crawl under way
InitNormalize ==
    /\ call \in [fn : {"normalize_url"}, url : UrlTails]
    /\ returned = None
    /\ jobs = {}
    /\ site = [kind |-> "any"]
    /\ base_url \in [Jobs -> BaseURLs]
    /\ max_pages = [j \in Jobs |-> None]
    /\ threshold = 1
    /\ JobsInit
    /\ NoScan

NormalizeUrl ==
    /\ call.fn = "normalize_url" /\ returned = None
    /\ returned' = Some(normalize_url_text(call.url))
    /\ UNCHANGED <<call, crawl_vars, scan_vars>>

NextNormalize == NormalizeUrl

SpecNormalize == InitNormalize /\ [][NextNormalize]_vars

----------------------------------------------------------------------------
(* Properties of the scores *)

Called(fn) == call # None /\ call.fn = fn /\ returned # None
Abs(x) == IF x < 0 THEN -x ELSE x

\* h tenths is num / den rounded to the nearest tenth
Nearest(h, num, den) == 2 * Abs(h * den - num) <= den

\* the weight (in hundredths) and the weighted score that component k brings
\* when its score sc is there, nothing when it is null
Part(sc, weight) == IF sc = None THEN [w |-> 0, ws |-> 0] ELSE [w |-> weight, ws |-> weight * sc[1]]

\* the weighted average, over the components that are not null, with the
\* weights 0.30, 0.25, 0.20, 0.15, 0.10: numerator and denominator
WeightedAverage(perf, a11y, sec, func, ui) ==
    LET parts == <<Part(perf, 30), Part(a11y, 25), Part(sec, 20), Part(func, 15), Part(ui, 10)>>
    IN  [num |-> parts[1].ws + parts[2].ws + parts[3].ws + parts[4].ws + parts[5].ws,
         den |-> parts[1].w + parts[2].w + parts[3].w + parts[4].w + parts[5].w]

\* C15: compute_page_health_score returns, for the set S of components that
\* are not null, the average of exactly the scores in S weighted by 0.30,
\* 0.25, 0.20, 0.15, 0.10 renormalized over S (to the nearest tenth), names S
\* as the weights used, and returns a null health score and a null risk
\* category when S is empty.
C15_RenormalizedWeights ==
    Called("compute_page_health_score") =>
        LET sc  == call.scores
            avg == WeightedAverage(sc.performance, sc.accessibility, sc.security,
                                   sc.functional, sc.ui_form)
            r   == returned[1]
        IN  IF avg.den = 0
            THEN r.health_score = None /\ r.risk_category = None
            ELSE /\ r.health_score # None
                 /\ Nearest(r.health_score[1], avg.num, avg.den)
                 /\ r.weights_used = { k \in Components : sc[k] # None }
                 /\ r.risk_category # None

\* a call with two components null whose health score, 100, would be 45 if a
\* null component counted as 0
C15_Witness ==
    /\ Called("compute_page_health_score")
    /\ call.scores.performance = None
    /\ call.scores.accessibility = None
    /\ call.scores.security = Some(1000)
    /\ call.scores.functional = Some(1000)
    /\ call.scores.ui_form = Some(1000)
    /\ returned[1].health_score = Some(1000)

\* what the inspector gave, as a score: null when it raised or gave nothing
Given(outcome) == IF outcome.kind = "data" THEN Some(outcome.value) ELSE None

\* C16: in the PageRecord of a visit, a component whose filter is not in a
\* non-empty filter set has a null score (ui_form when neither ui_elements nor
\* form_validation is in it), a component whose filter is active has the score
\* of what its inspector gave, with an empty filter set every component's
\* filter is active, and the health score is the weighted average, weights
\* renormalized, of the component scores of the record that are not null
\* (null when all are).
C16_FilterGating ==
    Called("page_object") =>
        LET v   == call.visit
            f   == v.active_filters
            r   == returned[1]
            on(key) == f = {} \/ key \in f
            avg == WeightedAverage(r.performance_score, r.accessibility_score, r.security_score,
                                   r.functional_score, r.ui_form_score)
        IN  /\ r.performance_score   = IF on("performance") THEN Given(v.perf) ELSE None
            /\ r.accessibility_score = IF on("accessibility") THEN Given(v.a11y) ELSE None
            /\ r.security_score      = IF on("security") THEN Given(v.security) ELSE None
            /\ r.functional_score # None <=> on("functional")
            /\ r.ui_form_score # None <=> (on("ui_elements") \/ on("form_validation"))
            /\ IF avg.den = 0
               THEN r.health_score = None /\ r.risk_category = None
               ELSE r.health_score # None /\ Nearest(r.health_score[1], avg.num, avg.den)

\* the accessibility inspector filtered out on a page where it has data: its
\* score is null and the health score is that of the four other components
C16_Witness ==
    /\ Called("page_object")
    /\ call.visit.active_filters = {"performance", "security", "functional", "ui_elements"}
    /\ call.visit.a11y = Data(870)
    /\ call.visit.perf = Data(455)
    /\ call.visit.security = Data(1000)
    /\ returned[1].accessibility_score = None
    /\ returned[1].performance_score = Some(455)
    /\ returned[1].functional_score # None
    /\ returned[1].ui_form_score # None
    /\ returned[1].health_score # None

\* C17: compute_functional_score deducts min(35, 7 * N) points for N broken
\* navigation links: never more than 35, and on a page with nothing else to
\* deduct, N = 3 gives 21 points less than N = 0.
C17_BrokenLinkDeduction ==
    Called("compute_functional_score") =>
        LET page == call.page
            r    == returned[1]
        IN  /\ r.breakdown.broken_links.deduction = Min(35, 7 * page.broken_links)
            /\ r.breakdown.broken_links.deduction <= 35
            /\ (page.status = 200 /\ page.js_errors = 0 /\ page.redirect_chain_length = 0
                  /\ page.broken_links = 3)
                   => compute_functional_score([page EXCEPT !.broken_links = 0]).score - r.score = 210

\* the same call with other counts of failed assets and third-party failures
OtherAssetCounts == {<<0, 0>>, <<5, 0>>, <<1, 4>>}

\* C18: the functional score does not read failed_assets nor
\* third_party_failures: a call of compute_functional_score, and the
\* PageRecord of a visit, give the same functional score (and the same link
\* deduction) whatever those two counts are, the rest being equal; with no
\* broken navigation link the link deduction is 0.
C18_AssetsNeverScored ==
    /\ Called("compute_functional_score") =>
           /\ \A c \in OtherAssetCounts :
                  LET other == compute_functional_score(
                                   [call.page EXCEPT !.failed_assets = c[1], !.third_party_failures = c[2]])
                  IN  /\ other.score = returned[1].score
                      /\ other.breakdown.broken_links = returned[1].breakdown.broken_links
           /\ call.page.broken_links = 0 => returned[1].breakdown.broken_links.deduction = 0
    /\ Called("page_object") =>
           /\ \A c \in OtherAssetCounts :
                  page_object([call.visit EXCEPT !.failed_assets = c[1], !.third_party_failures = c[2]]).functional_score
                      = returned[1].functional_score
           /\ returned[1].failed_assets = call.visit.failed_assets
           /\ returned[1].third_party_failures = call.visit.third_party_failures

\* a PageRecord with failed assets and third-party failures, no broken
\* navigation link and one JS error: the functional score is 97
C18_Witness ==
    /\ Called("page_object")
    /\ call.visit.active_filters = {}
    /\ call.visit.status = 200
    /\ returned[1].failed_assets = 2
    /\ returned[1].third_party_failures = 1
    /\ returned[1].broken_navigation_links = 0
    /\ returned[1].functional_score = Some(970)

\* the PageRecord of a visit passes exactly when the status is 200
ResultFollowsStatus ==
    Called("page_object") =>
        returned[1].result = IF call.visit.status = 200 THEN "pass" ELSE "fail"

\* C19: the HTTP-status deduction is 80 for 404, 100 for every
\* status in 500..599, 50 for every other status >= 400 and 0 for 200; the
\* result is "pass" exactly for status 200.
C19_StatusDeduction ==
    /\ Called("compute_functional_score") =>
           LET status == call.page.status
               d      == returned[1].breakdown.http_status
           IN  /\ status = 404 => d = Some(80)
               /\ status \in 500..599 => d = Some(100)
               /\ (status >= 400 /\ status # 404 /\ status \notin 500..599) => d = Some(50)
               /\ status = 200 => d = Some(0)
    /\ ResultFollowsStatus

\* a 503 page with nothing else to deduct: the code deducts 50, the score is 50
C19_Status503 ==
    /\ Called("compute_functional_score")
    /\ call.page.status = 503
    /\ call.page.broken_links = 0
    /\ call.page.js_errors = 0
    /\ call.page.redirect_chain_length = 0
    /\ returned[1].breakdown.http_status = Some(50)
    /\ returned[1].score = 500

\* C20: compute_run_confidence returns a number in [0, 100] for every page
\* list and filter set, 0.0 for the empty list, and each of its six factors
\* lies in [0, 1] before weighting.
C20_RunConfidenceBounded ==
    Called("compute_run_confidence") =>
        LET r == returned[1]
        IN  /\ r.confidence \in 0..1000
            /\ call.pages = <<>> => r.confidence = 0
            /\ call.pages # <<>> =>
                   /\ r.factors # None
                   /\ \A k \in DOMAIN r.factors[1] : r.factors[1][k] \in 0..10000

\* two pages, both with long redirect chains and health scores 0 and 100:
\* the redirect and stability factors are held at 0, the confidence is not
C20_Witness ==
    /\ Called("compute_run_confidence")
    /\ Len(call.pages) = 2
    /\ \A i \in 1..2 : call.pages[i].redirect_chain_length > 2
    /\ {call.pages[1].health_score, call.pages[2].health_score} = {Some(0), Some(1000)}
    /\ returned[1].factors[1].redirect = 0
    /\ returned[1].factors[1].stability = 0
    /\ returned[1].factors[1].coverage = 10000
    /\ returned[1].confidence \in 1..999

\* the distinct URLs among the page urls and their connected_pages
DiscoveredOf(pages) ==
    { pages[i].url : i \in 1..Len(pages) }
        \cup UNION { pages[i].connected_pages : i \in 1..Len(pages) }

\* C21: the crawl-coverage factor is pages_scanned / max(pages_scanned,
\* distinct URLs among page urls and connected_pages), and one more scanned
\* page that leaves the discovered set as it is never lowers the factor.
C21_CoverageFactor ==
    (Called("compute_run_confidence") /\ call.pages # <<>>) =>
        LET n        == Len(call.pages)
            total    == Max(n, Cardinality(DiscoveredOf(call.pages)))
            coverage == returned[1].factors[1].coverage
        IN  /\ coverage * total <= n * 10000
            /\ n * 10000 < (coverage + 1) * total
            /\ \A p \in ConfidencePages :
                   DiscoveredOf(Append(call.pages, p)) = DiscoveredOf(call.pages)
                       => crawl_coverage_ratio(Append(call.pages, p)) >= coverage

\* two pages scanned out of three discovered, where one page alone gave 1/3
C21_Witness ==
    /\ Called("compute_run_confidence")
    /\ Len(call.pages) = 2
    /\ Cardinality(DiscoveredOf(call.pages)) = 3
    /\ DiscoveredOf(<<call.pages[1]>>) = DiscoveredOf(call.pages)
    /\ crawl_coverage_ratio(<<call.pages[1]>>) = 3333
    /\ returned[1].factors[1].coverage = 6666

\* C22: the site health score is the mean of the non-null page health scores
\* (null pages left out, not counted as 0), null when no page has one; the
\* four distribution counts add up to the scored pages and each scored page
\* is counted in the bucket of its own risk_category.
C22_SiteHealthMean ==
    Called("compute_site_health_score") =>
        LET ps     == call.page_scores
            r      == returned[1]
            scored == { i \in 1..Len(ps) : ps[i].health_score # None }
            total  == SumOver(scored, [i \in scored |-> ps[i].health_score[1]])
        IN  IF scored = {}
            THEN r.site_health_score = None /\ r.scored_pages = 0
            ELSE /\ r.site_health_score # None
                 /\ Nearest(r.site_health_score[1], total, Cardinality(scored))
                 /\ r.scored_pages = Cardinality(scored)
                 /\ SumOver(RiskCategories, r.score_distribution) = Cardinality(scored)
                 /\ \A c \in RiskCategories :
                        r.score_distribution[c]
                            = Cardinality({ i \in scored : ps[i].risk_category = Some(c) })

\* three pages, one without a health score, the others at 90.0 and 49.9:
\* the site score is their mean, not the mean over three
C22_Witness ==
    /\ Called("compute_site_health_score")
    /\ Len(call.page_scores) = 3
    /\ { call.page_scores[i].health_score : i \in 1..3 } = {None, Some(900), Some(499)}
    /\ returned[1].site_health_score \in {Some(699), Some(700)}
    /\ returned[1].scored_pages = 2
    /\ returned[1].score_distribution["Excellent"] = 1
    /\ returned[1].score_distribution["Critical"] = 1

\* the URLs of a bucket
BucketURLs(bucket) == { bucket[i].url : i \in 1..Len(bucket) }

\* C23: every entry of broken_navigation_links is an anchor target on the
\* job's own host with a non-asset extension, never an asset and never a
\* third-party host, and no URL is in more than one of the three buckets.
C23_LinkBuckets ==
    Called("link_data") =>
        LET v      == call.visit
            nav    == BucketURLs(returned[1].broken_navigation_links)
            assets == BucketURLs(returned[1].failed_assets)
            third  == BucketURLs(returned[1].third_party_failures)
        IN  /\ \A u \in nav :
                   /\ \E i \in 1..Len(v.hrefs) :
                          /\ v.hrefs[i].netloc = u.netloc
                          /\ v.hrefs[i].path = u.path
                          /\ v.hrefs[i].ext = u.ext
                   /\ u.netloc = v.base_url.netloc
                   /\ u.ext \notin ASSET_EXTENSIONS
            /\ nav \cap assets = {}
            /\ nav \cap third = {}
            /\ assets \cap third = {}

\* a page with an image anchor and a broken internal anchor whose own response
\* also failed, and a failed third-party script: the anchor alone is in the
\* navigation bucket, the script among the assets and not the third parties
C23_Witness ==
    /\ Called("link_data")
    /\ BucketURLs(returned[1].broken_navigation_links) = { URL(SiteHost, 1, "", FALSE, FALSE) }
    /\ URL(SiteHost, 1, ".png", FALSE, FALSE) \in Range(call.visit.hrefs)
    /\ \E i \in 1..Len(call.visit.events) :
           call.visit.events[i].url = URL(SiteHost, 1, "", FALSE, FALSE)
    /\ BucketURLs(returned[1].failed_assets) = { URL(OtherHost, 1, ".js", FALSE, FALSE) }
    /\ returned[1].third_party_failures = <<>>

\* the points the flagged issues cost: high 20, medium 10, low 4
SeverityDeductions(issues) ==
    SumOver(1..Len(issues),
            [i \in 1..Len(issues) |->
                CASE issues[i].severity = "high" -> 20
                  [] issues[i].severity = "medium" -> 10
                  [] issues[i].severity = "low" -> 4])

\* C24: a discovered form with at least one input field has a non-null health
\* score, 100 minus the severity deductions of its flagged issues (high 20,
\* medium 10, low 4) floored at 0; a page whose forms have fields and no
\* flagged issue loses nothing of its ui_form score to them.
C24_FormHealth ==
    /\ (Called("analyze_form") /\ "inputs" \in DOMAIN call.form_raw
            /\ call.form_raw.inputs # <<>>) =>
           /\ returned[1].form_health_score # None
           /\ returned[1].form_health_score[1]
                  = Max(0, 100 - SeverityDeductions(returned[1].form_issues))
    /\ (Called("page_object") /\ call.visit.dom.kind = "data"
            /\ returned[1].ui_form_score # None) =>
           returned[1].ui_form_score = Some(1000)

\* the page with the login form (three inputs, nothing to flag): the form's
\* health score is null, and the ui_form score of the page is 50.0
C24_FormUnscored ==
    /\ Called("page_object")
    /\ call.visit.dom = Data([forms |-> <<DiscoveredForm("/login", "post", LoginFields)>>,
                              ui_elements |-> [i \in 1..4 |-> [tag |-> "a", visible |-> FALSE]]])
    /\ returned[1].forms = <<None>>
    /\ returned[1].ui_form_score = Some(500)

\* the place of a token in the assembly order; 4 is a security category
TokenRank(token) ==
    CASE token = "missing_alt" -> 1
      [] token = "unlabeled_inputs" -> 2
      [] token = "no_lang_attr" -> 3
      [] token = "broken_nav_links" -> 5
      [] token = "slow_lcp" -> 6
      [] OTHER -> 4

\* C25: the tokens of a root cause tag come in the order accessibility tokens
\* (missing_alt, unlabeled_inputs, no_lang_attr), at most two high/critical
\* security categories, broken_nav_links, slow_lcp, and are at most 5; a page
\* with missing_alt = 2, a lang attribute, no other accessibility finding and
\* one critical csp finding has missing_alt before csp and a failure pattern.
C25_TagOrder ==
    Called("enrich_page_with_ai_fields") =>
        LET page == call.page
            r    == returned[1]
            tag  == IF r.root_cause_tag = None THEN <<>> ELSE r.root_cause_tag[1]
            secs == { i \in 1..Len(tag) : TokenRank(tag[i]) = 4 }
        IN  /\ Len(tag) <= 5
            /\ \A i, k \in 1..Len(tag) :
                   i < k => \/ TokenRank(tag[i]) < TokenRank(tag[k])
                            \/ TokenRank(tag[i]) = 4 /\ TokenRank(tag[k]) = 4 /\ tag[i] # tag[k]
            /\ Cardinality(secs) <= 2
            /\ \A i \in secs :
                   \E n \in 1..Len(page.security_data.value.findings) :
                       /\ page.security_data.value.findings[n].category = tag[i]
                       /\ page.security_data.value.findings[n].severity \in {"critical", "high"}
            /\ (/\ page.accessibility_data
                      = Data([checks |-> [missing_alt |-> 2, unlabeled_inputs |-> 0],
                              has_lang_attr |-> TRUE, total_issues |-> 6])
                /\ page.security_data = SecurityData(<<Finding("csp", "critical")>>))
               => /\ SubSeq(tag, 1, 2) = <<"missing_alt", "csp">>
                  /\ r.failure_pattern_id # None

\* the page of the example, with a broken link and a slow LCP besides
C25_Witness ==
    /\ Called("enrich_page_with_ai_fields")
    /\ call.page.accessibility_data.kind = "data"
    /\ call.page.accessibility_data.value.checks.missing_alt = 2
    /\ call.page.accessibility_data.value.has_lang_attr
    /\ call.page.security_data = SecurityData(<<Finding("csp", "critical")>>)
    /\ returned[1].root_cause_tag = Some(<<"missing_alt", "csp", "broken_nav_links", "slow_lcp">>)
    /\ "sec_critical" \in returned[1].failure_pattern_id[1]

\* some token applies to the page: an accessibility finding in the
\* accessibility data, a high or critical security finding, a broken
\* navigation link, an LCP over 4000 ms
TokenApplies(page) ==
    \/ /\ page.accessibility_data.kind = "data"
       /\ \/ page.accessibility_data.value.checks.missing_alt > 0
          \/ page.accessibility_data.value.checks.unlabeled_inputs > 0
          \/ ~page.accessibility_data.value.has_lang_attr
    \/ /\ page.security_data.kind = "data"
       /\ \E i \in 1..Len(page.security_data.value.findings) :
              page.security_data.value.findings[i].severity \in {"critical", "high"}
    \/ page.broken_navigation_links > 0
    \/ page.lcp_ms # None /\ page.lcp_ms[1] > 4000

\* C27: root_cause_tag is null whenever no token applies; a page without
\* accessibility data, with no high or critical security finding, no broken
\* navigation link and an LCP of at most 4000 ms has a null tag.
C27_NullWithoutTokens ==
    (Called("enrich_page_with_ai_fields") /\ ~TokenApplies(call.page)) =>
        returned[1].root_cause_tag = None

\* the accessibility inspector did not run, nothing else to report: the tag
\* is "no_lang_attr"
C27_TagWithoutData ==
    /\ Called("enrich_page_with_ai_fields")
    /\ call.page.accessibility_data = Empty
    /\ call.page.security_data = Empty
    /\ ~TokenApplies(call.page)
    /\ returned[1].root_cause_tag = Some(<<"no_lang_attr">>)

\* C28: two evaluations of compute_root_cause_tag on equal page data give the
\* same tag, also with three or more high or critical security categories.
C28_TagDeterministic ==
    (Called("enrich_page_with_ai_fields") /\ Len(returned) = 2) =>
        returned[1].root_cause_tag = returned[2].root_cause_tag

\* three high or critical categories, two evaluations: one keeps https and
\* hsts, the other csp and hsts
C28_TagsDiffer ==
    /\ Called("enrich_page_with_ai_fields")
    /\ Len(returned) = 2
    /\ Cardinality(sec_categories(call.page)) = 3
    /\ "https" \in Range(returned[1].root_cause_tag[1])
    /\ "https" \notin Range(returned[2].root_cause_tag[1])

\* C26: normalize_url is idempotent, and a URL with or without a trailing
\* slash, with or without a fragment, normalizes to the same string.
C26_NormalizeIdempotent ==
    Called("normalize_url") =>
        /\ normalize_url_text(returned[1]) = returned[1]
        /\ normalize_url_text(call.url \o <<"/">>) = returned[1]
        /\ normalize_url_text(call.url \o <<"#", "x">>) = returned[1]

\* "http://a.com/x?/" normalizes to "http://a.com/x?", and that to
\* "http://a.com/x"
C26_SecondPassDiffers ==
    /\ Called("normalize_url")
    /\ call.url = <<"/", "x", "?", "/">>
    /\ returned[1] = <<"/", "x", "?">>
    /\ normalize_url_text(returned[1]) = <<"/", "x">>

\* C29: at the start of every iteration of the crawl loop the frontier holds
\* no URL twice and no visited URL, so the URL about to be dequeued is new and
\* the "already visited" skip is not taken.
C29_FrontierFresh ==
    \A j \in jobs :
        pc[j] = "loop" =>
            /\ \A i, k \in 1..Len(queue[j]) : queue[j][i] = queue[j][k] => i = k
            /\ Range(queue[j]) \cap visited[j] = {}
            /\ queue[j] # <<>> => ~AlreadyVisited(j, pop0(queue[j]).url)

\* a loop iteration starts with two pages visited and two URLs waiting
C29_Witness ==
    \E j \in jobs :
        /\ pc[j] = "loop"
        /\ Cardinality(visited[j]) >= 2
        /\ Len(queue[j]) >= 2

\* C30: on a site with finitely many same-domain URLs, every external call
\* returning or timing out, the crawl loop ends, page cap or not: each
\* iteration takes one URL off the frontier and no URL is enqueued twice in a
\* job.
C30_CrawlTerminates ==
    /\ [](\A j \in jobs : NoRepeat(enq_log[j]))
    /\ [][\A j \in Jobs :
              (pc[j] = "loop" /\ current_url'[j] # current_url[j])
                  => /\ queue[j] # <<>>
                     /\ queue'[j] = Tail(queue[j])]_vars
    /\ \A j \in Jobs : (j \in jobs /\ pc[j] = "loop") ~> AfterLoop(j)

\* a job without a page cap has left the loop with the frontier empty, three
\* pages recorded
C30_Witness ==
    \E j \in jobs :
        /\ max_pages[j] = None
        /\ AfterLoop(j)
        /\ exit_reason[j] = "empty"
        /\ queue[j] = <<>>
        /\ Len(page_data[j]) >= 3

====
